---- MODULE Spec2Model ----
(***************************************************************************)
(* TradeConnect: the bot lifecycle controller of TradingEngine             *)
(* (server/services/tradingEngine.ts) with its collaborators: the storage  *)
(* (server/storage.ts), the market data service and the broker service.    *)
(*                                                                         *)
(* Node runs one callback at a time, so the code between two awaits is one *)
(* atomic step.  Every action below is one such step: the awaited          *)
(* collaborator call completes (its effect and its result happen here) and *)
(* the code runs on to the next await or to the end of the function.       *)
(* Money is counted in centavos and prices in whole points, so that the    *)
(* arithmetic of the engine is integer arithmetic.  All trades are of the  *)
(* current day.                                                            *)
(***************************************************************************)
EXTENDS Integers, Sequences, FiniteSets, Bags, TLC

\* ---------------------------------------------------------------- bounds
\* BotStatus objects ever created (accepted startBot calls).
MaxBots == 2
\* Rows of the trades table.
MaxTrades == 2
\* Invocations (startBot, stopBot, emergencyStop, monitorBot) in flight.
MaxTasks == 2
\* Timer firings that enter monitorBot; also the logical clock of new Date().
MaxTicks == 3
\* Storage calls that throw.
MaxFaults == 1

\* ---------------------------------------------------------------- inputs
Users == {"u1", "u2"}

ConfigIds == {"c1", "c2", "c3", "c4"}

\* BotConfiguration rows (shared/schema.ts botConfigurations); metaLucroDiario
\* in centavos.
Config ==
  [c \in ConfigIds |->
     CASE c = "c1" -> [userId |-> "u1", contratoPreferido |-> "WIN", contratos |-> 1,
                       metaLucroDiario |-> 20, stopLossPontos |-> 1, maxTradesDia |-> 1,
                       trailingStopAtivo |-> FALSE, trailingStopPontos |-> 1]
       [] c = "c2" -> [userId |-> "u1", contratoPreferido |-> "WIN", contratos |-> 1,
                       metaLucroDiario |-> 10, stopLossPontos |-> 2, maxTradesDia |-> 3,
                       trailingStopAtivo |-> TRUE, trailingStopPontos |-> 1]
       [] c = "c4" -> [userId |-> "u1", contratoPreferido |-> "WIN", contratos |-> 1,
                       metaLucroDiario |-> 120, stopLossPontos |-> 2, maxTradesDia |-> 3,
                       trailingStopAtivo |-> TRUE, trailingStopPontos |-> 1]
       [] OTHER    -> [userId |-> "u2", contratoPreferido |-> "WDO", contratos |-> 1,
                       metaLucroDiario |-> 50, stopLossPontos |-> 1, maxTradesDia |-> 1,
                       trailingStopAtivo |-> FALSE, trailingStopPontos |-> 1]]

\* marketData.close values the market data service can return.
Prices == {10, 11}

\* "No value": a null / undefined number, row id or price.
Null == 0

\* No bot_configurations row.
NoConfig == "-"

\* TechnicalIndicators rows the market data service can return.
IndicatorSets ==
  { [rsi |-> 55, ema9 |-> 2, ema21 |-> 1, macd |-> 2, macdSignal |-> 1, volatilidade |-> 100],
    [rsi |-> 55, ema9 |-> 1, ema21 |-> 2, macd |-> 2, macdSignal |-> 1, volatilidade |-> 100],
    [rsi |-> 85, ema9 |-> 1, ema21 |-> 2, macd |-> 1, macdSignal |-> 1, volatilidade |-> 500] }

\* Wall-clock times (hour, minute) at which calculateEntryScore can run.
Clocks == { <<9, 0>>, <<12, 0>> }

\* Request bodies of POST /api/trades: a trade the user records by hand, already
\* closed with a profit of 20 centavos.
TradeBodies ==
  { [botConfigId |-> NoConfig, contrato |-> "WIN", tipo |-> "COMPRA", pontosEntrada |-> 10,
     pontosTakeProfit |-> 11, pontosStopLoss |-> 9, contratos |-> 1, status |-> "FECHADO",
     pontosSaida |-> 11, motivoSaida |-> "MANUAL", resultado |-> 20, closes |-> 0] }

\* ---------------------------------------------------------------- state
VARIABLES
  activeBots,       \* TradingEngine.activeBots: user -> BotStatus object (0: no entry)
  bots,             \* the BotStatus objects, by identity
  nextBot,          \* the next BotStatus identity
  intervalHandles,  \* TradingEngine.intervalHandles: user -> timer handle (0: none)
  timers,           \* the timers setInterval created and clearInterval has not cleared
  tasks,            \* the invocations in flight (a bag), each suspended at an await
  configs,          \* storage: bot_configurations rows ("absent", or isActive)
  trades,           \* storage: trades rows, in order of horarioEntrada
  now,              \* timer firings so far: the logical time new Date() reads
  faults,           \* storage calls that have thrown
  stopAcked,        \* user -> a stopBot/emergencyStop call has returned and no startBot
                    \*         was accepted since that call was made
  out,              \* what the last step produced: calls, returns, events, logs, orders
  scope             \* what the environment of this run does (see Scopes); it never changes

vars == <<activeBots, bots, nextBot, intervalHandles, timers, tasks, configs, trades,
          now, faults, stopAcked, out, scope>>

BotIds == 1..MaxBots

\* The environments explored.  A scope says which users call the API with which
\* configurations, how many BotStatus objects, invocations in flight, timer firings
\* and trade rows the run goes up to, how many storage calls throw, and whether the
\* routes that delete a configuration and record a trade are called.
Scopes ==
  { [name |-> "lifecycle", users |-> {"u1"}, configs |-> {"c1"}, bots |-> MaxBots,
     tasks |-> MaxTasks, ticks |-> MaxTicks, trades |-> 0, faults |-> 0,
     deletes |-> FALSE, posts |-> FALSE],
    [name |-> "trading", users |-> {"u1"}, configs |-> {"c1", "c2"}, bots |-> 1,
     tasks |-> 1, ticks |-> MaxTicks, trades |-> MaxTrades, faults |-> 0,
     deletes |-> FALSE, posts |-> TRUE],
    [name |-> "overlap", users |-> {"u1"}, configs |-> {"c2"}, bots |-> 1,
     tasks |-> MaxTasks, ticks |-> MaxTicks - 1, trades |-> MaxTrades, faults |-> 0,
     deletes |-> FALSE, posts |-> FALSE],
    [name |-> "trailing", users |-> {"u1"}, configs |-> {"c4"}, bots |-> 1,
     tasks |-> MaxTasks, ticks |-> MaxTicks, trades |-> MaxTrades - 1, faults |-> 0,
     deletes |-> FALSE, posts |-> FALSE],
    [name |-> "faults", users |-> {"u1"}, configs |-> {"c1"}, bots |-> 1,
     tasks |-> 1, ticks |-> MaxTicks - 1, trades |-> MaxTrades - 1, faults |-> MaxFaults,
     deletes |-> TRUE, posts |-> FALSE],
    [name |-> "two users", users |-> {"u1", "u2"}, configs |-> {"c1", "c3"}, bots |-> MaxBots,
     tasks |-> MaxTasks, ticks |-> MaxTicks - 2, trades |-> MaxTrades - 1, faults |-> 0,
     deletes |-> FALSE, posts |-> FALSE] }

NoTrade == [id |-> 0, pontosStopLoss |-> 0]

NoBot == [userId |-> "-", configId |-> "-", currentPosition |-> NoTrade,
          dailyTrades |-> 0, dailyProfit |-> 0, lastActivity |-> 0]

\* An invocation in flight: the function (op), its user, the await it is suspended at
\* (pc) and its locals; openAtCall records the positions open when an API stop was
\* called.
Idle == [op |-> "idle", user |-> "-", pc |-> "-", bs |-> 0, sbs |-> 0, cfg |-> NoConfig,
         price |-> 0, trade |-> NoTrade, dir |-> "-", exitPrice |-> 0, reason |-> "-",
         level |-> "-", newSL |-> 0, nested |-> FALSE, openAtCall |-> {}]

\* ------------------------------------------------------------- outputs
Call(u, op) == <<"call", u, op, "">>
Ret(u, op, res) == <<"ret", u, op, res>>
Event(u, name, x) == <<"event", u, name, x>>
Log(u, c, level) == <<"log", u, level, c>>
Order(u, side, price) == <<"order", u, side, price>>
TickStart(u) == <<"tick", u, "start", "">>
NoData(u, what) == <<"nodata", u, what, "">>

\* ------------------------------------------------- pure engine functions
\* getContractSpec: valorPonto in centavos per point, tickSize in tenths of a point;
\* unknown symbols get WIN's.
getContractSpec(contract) ==
  CASE contract = "WIN" -> [nome |-> "Mini Indice Bovespa", valorPonto |-> 20, tickSize |-> 50]
    [] contract = "WDO" -> [nome |-> "Mini Dolar", valorPonto |-> 50, tickSize |-> 5]
    [] OTHER -> [nome |-> "Mini Indice Bovespa", valorPonto |-> 20, tickSize |-> 50]

\* Math.round of the non-negative quotient n / d: halves round up.
Round(n, d) == (2 * n + d) \div (2 * d)

MaxOf(a, b) == IF a >= b THEN a ELSE b

\* A calculateTargetPoints that lacks Math.max(1, ...).
calculateTargetPointsNoFloor(config) ==
  LET valuePerPoint == getContractSpec(config.contratoPreferido).valorPonto * config.contratos
  IN  Round(config.metaLucroDiario, config.maxTradesDia * valuePerPoint)

\* calculateTargetPoints: max(1, round((meta / maxTrades) / (valorPonto * contratos))).
calculateTargetPoints(config) ==
  LET valuePerPoint == getContractSpec(config.contratoPreferido).valorPonto * config.contratos
  IN  MaxOf(1, Round(config.metaLucroDiario, config.maxTradesDia * valuePerPoint))

\* The time window test of calculateEntryScore on (hour, minute).
InTradingWindow(clock) ==
  LET currentHour == clock[1]
      currentMinute == clock[2]
  IN  \/ (currentHour = 9 /\ currentMinute >= 30)
      \/ (currentHour >= 10 /\ currentHour < 17)
      \/ (currentHour = 17 /\ currentMinute <= 25)

\* A calculateEntryScore that enters only above 60.
calculateEntryScoreAbove(indicators, clock) ==
  LET rsiScore == IF indicators.rsi >= 30 /\ indicators.rsi <= 70 THEN 20
                  ELSE IF indicators.rsi < 35 THEN 15
                  ELSE IF indicators.rsi > 65 THEN 10 ELSE 0
      emaScore == IF indicators.ema9 > indicators.ema21 THEN 20 ELSE 15
      emaDirection == IF indicators.ema9 > indicators.ema21 THEN "COMPRA" ELSE "VENDA"
      macdScore == IF indicators.macd > indicators.macdSignal THEN 15 ELSE 0
      volScore == IF indicators.volatilidade >= 20 /\ indicators.volatilidade <= 200
                  THEN 20 ELSE 0
      timeScore == IF InTradingWindow(clock) THEN 25 ELSE 0
      score == rsiScore + emaScore + macdScore + volScore + timeScore
  IN  [shouldEnter |-> score > 60, direction |-> emaDirection, score |-> score]

\* A calculateEntryScore whose EMA branch leaves the RSI's direction in place.
calculateEntryScoreRsiBias(indicators, clock) ==
  LET rsiScore == IF indicators.rsi >= 30 /\ indicators.rsi <= 70 THEN 20
                  ELSE IF indicators.rsi < 35 THEN 15
                  ELSE IF indicators.rsi > 65 THEN 10 ELSE 0
      emaScore == IF indicators.ema9 > indicators.ema21 THEN 20 ELSE 15
      emaDirection == IF indicators.ema9 > indicators.ema21 THEN "COMPRA" ELSE "VENDA"
      direction == IF indicators.rsi >= 30 /\ indicators.rsi <= 70 THEN emaDirection
                   ELSE IF indicators.rsi < 35 THEN "COMPRA"
                   ELSE IF indicators.rsi > 65 THEN "VENDA" ELSE emaDirection
      macdScore == IF indicators.macd > indicators.macdSignal THEN 15 ELSE 0
      volScore == IF indicators.volatilidade >= 20 /\ indicators.volatilidade <= 200
                  THEN 20 ELSE 0
      timeScore == IF InTradingWindow(clock) THEN 25 ELSE 0
      score == rsiScore + emaScore + macdScore + volScore + timeScore
  IN  [shouldEnter |-> score >= 60, direction |-> direction, score |-> score]

\* A calculateEntryScore whose MACD term is only counted with a neutral RSI.
calculateEntryScoreNeutralMacd(indicators, clock) ==
  LET rsiScore == IF indicators.rsi >= 30 /\ indicators.rsi <= 70 THEN 20
                  ELSE IF indicators.rsi < 35 THEN 15
                  ELSE IF indicators.rsi > 65 THEN 10 ELSE 0
      emaScore == IF indicators.ema9 > indicators.ema21 THEN 20 ELSE 15
      emaDirection == IF indicators.ema9 > indicators.ema21 THEN "COMPRA" ELSE "VENDA"
      macdScore == IF indicators.macd > indicators.macdSignal /\ rsiScore = 20 THEN 15 ELSE 0
      volScore == IF indicators.volatilidade >= 20 /\ indicators.volatilidade <= 200
                  THEN 20 ELSE 0
      timeScore == IF InTradingWindow(clock) THEN 25 ELSE 0
      score == rsiScore + emaScore + macdScore + volScore + timeScore
  IN  [shouldEnter |-> score >= 60, direction |-> emaDirection, score |-> score]

\* calculateEntryScore: the additive score, the direction and the decision.  The
\* direction starts as COMPRA, the RSI bands may set it, and the EMA branch then
\* assigns it in both of its arms.
calculateEntryScore(indicators, clock) ==
  LET rsiScore == IF indicators.rsi >= 30 /\ indicators.rsi <= 70 THEN 20
                  ELSE IF indicators.rsi < 35 THEN 15
                  ELSE IF indicators.rsi > 65 THEN 10 ELSE 0
      rsiDirection == IF indicators.rsi >= 30 /\ indicators.rsi <= 70 THEN "COMPRA"
                      ELSE IF indicators.rsi < 35 THEN "COMPRA"
                      ELSE IF indicators.rsi > 65 THEN "VENDA" ELSE "COMPRA"
      emaScore == IF indicators.ema9 > indicators.ema21 THEN 20 ELSE 15
      emaDirection == IF indicators.ema9 > indicators.ema21 THEN "COMPRA" ELSE "VENDA"
      macdScore == IF indicators.macd > indicators.macdSignal THEN 15 ELSE 0
      volScore == IF indicators.volatilidade >= 20 /\ indicators.volatilidade <= 200
                  THEN 20 ELSE 0
      timeScore == IF InTradingWindow(clock) THEN 25 ELSE 0
      score == rsiScore + emaScore + macdScore + volScore + timeScore
  IN  [shouldEnter |-> score >= 60, direction |-> emaDirection, score |-> score]

\* executeEntry: the take-profit and stop-loss levels of a new position.
EntryLevels(config, entryPrice, direction) ==
  IF direction = "COMPRA"
  THEN [takeProfit |-> entryPrice + calculateTargetPoints(config),
        stopLoss |-> entryPrice - config.stopLossPontos]
  ELSE [takeProfit |-> entryPrice - calculateTargetPoints(config),
        stopLoss |-> entryPrice + config.stopLossPontos]

\* monitorPosition: the exit decision for a position at the current price.
ExitDecision(tipo, takeProfit, stopLoss, currentPrice) ==
  IF tipo = "COMPRA"
  THEN IF currentPrice >= takeProfit
       THEN [shouldClose |-> TRUE, exitReason |-> "TAKE_PROFIT", exitPrice |-> takeProfit]
       ELSE IF currentPrice <= stopLoss
       THEN [shouldClose |-> TRUE, exitReason |-> "STOP_LOSS", exitPrice |-> stopLoss]
       ELSE [shouldClose |-> FALSE, exitReason |-> "", exitPrice |-> currentPrice]
  ELSE IF currentPrice <= takeProfit
       THEN [shouldClose |-> TRUE, exitReason |-> "TAKE_PROFIT", exitPrice |-> takeProfit]
       ELSE IF currentPrice >= stopLoss
       THEN [shouldClose |-> TRUE, exitReason |-> "STOP_LOSS", exitPrice |-> stopLoss]
       ELSE [shouldClose |-> FALSE, exitReason |-> "", exitPrice |-> currentPrice]

\* updateTrailingStop: the candidate stop and whether it replaces the current one.
TrailingStop(tipo, stopLoss, currentPrice, trailingPoints) ==
  IF tipo = "COMPRA"
  THEN IF currentPrice - trailingPoints > stopLoss
       THEN [updated |-> TRUE, newStopLoss |-> currentPrice - trailingPoints]
       ELSE [updated |-> FALSE, newStopLoss |-> stopLoss]
  ELSE IF currentPrice + trailingPoints < stopLoss
       THEN [updated |-> TRUE, newStopLoss |-> currentPrice + trailingPoints]
       ELSE [updated |-> FALSE, newStopLoss |-> stopLoss]

\* closePosition: the realized result in centavos.
TradeResult(trade, exitPrice) ==
  LET pointsGained == IF trade.tipo = "COMPRA" THEN exitPrice - trade.pontosEntrada
                      ELSE trade.pontosEntrada - exitPrice
  IN  pointsGained * getContractSpec(trade.contrato).valorPonto * trade.contratos

\* ------------------------------------------------------------- storage
TradeIds == 1..Len(trades)

OpenTrades(u) == {i \in TradeIds : trades[i].userId = u /\ trades[i].status = "ATIVO"}

SetMax(S) == CHOOSE x \in S : \A y \in S : y <= x

\* storage.getTrades(userId, {limit: 1, status: 'ATIVO'}): the user's most recent
\* open trade as the caller's own copy (its id and its stop-loss at this moment).
getTrades(u) ==
  IF OpenTrades(u) = {} THEN NoTrade
  ELSE LET i == SetMax(OpenTrades(u))
       IN  [id |-> i, pontosStopLoss |-> trades[i].pontosStopLoss]

RECURSIVE SumResultado(_, _)
SumResultado(u, i) ==
  IF i = 0 THEN 0
  ELSE (IF trades[i].userId = u THEN trades[i].resultado ELSE 0) + SumResultado(u, i - 1)

\* storage.getDailyMetrics: count(*) and sum(resultado) over the user's trades of today.
getDailyMetrics(u) ==
  [totalTrades |-> Cardinality({i \in TradeIds : trades[i].userId = u}),
   totalProfit |-> SumResultado(u, Len(trades))]

\* storage.getBotConfiguration: the row, or Null when it does not exist.
getBotConfiguration(c) == IF configs[c] = "absent" THEN NoConfig ELSE c

\* storage.updateBotConfiguration(id, userId, {isActive}): no row, no change.
updateBotConfiguration(c, isActive) ==
  IF configs[c] = "absent" THEN configs
  ELSE [configs EXCEPT ![c] = IF isActive THEN "active" ELSE "inactive"]

\* storage.createTrade: a new ATIVO row with resultado at its default 0.00.
createTrade(u, c, direction, entryPrice) ==
  LET levels == EntryLevels(Config[c], entryPrice, direction)
  IN  Append(trades,
        [userId |-> u, botConfigId |-> c, contrato |-> Config[c].contratoPreferido,
         tipo |-> direction, pontosEntrada |-> entryPrice,
         pontosTakeProfit |-> levels.takeProfit, pontosStopLoss |-> levels.stopLoss,
         contratos |-> Config[c].contratos, status |-> "ATIVO",
         pontosSaida |-> Null, motivoSaida |-> "", resultado |-> 0, closes |-> 0])

\* storage.closeTrade: writes the exit and sets FECHADO, whatever the row's status.
closeTrade(id, exitPrice, reason) ==
  [trades EXCEPT ![id] = [@ EXCEPT !.pontosSaida = exitPrice, !.motivoSaida = reason,
                                   !.resultado = TradeResult(trades[id], exitPrice),
                                   !.status = "FECHADO", !.closes = @ + 1]]

\* storage.updateTradeStopLoss
updateTradeStopLoss(id, newStopLoss) ==
  [trades EXCEPT ![id] = [@ EXCEPT !.pontosStopLoss = newStopLoss]]

\* ------------------------------------------------------------ tasks
One(r) == SetToBag({r})

\* A new invocation is in flight, suspended at its first await.
Spawn(r) == tasks' = tasks (+) One(r)

\* Invocation r goes on to its next await, with the locals upd changed.
Goto(r, upd) == tasks' = (tasks (-) One(r)) (+) One(upd @@ r)

\* Invocation r is over.
End(r) == tasks' = tasks (-) One(r)

\* The environment lets one more invocation start.
CanSpawn == BagCardinality(tasks) < scope.tasks

\* Invocation old (Idle: a new one) goes on as new.
Become(old, new) ==
  tasks' = (IF old = Idle THEN tasks ELSE tasks (-) One(old)) (+) One(new)

\* The awaits on a storage call, which can throw.
StoragePcs == {"start_persist", "start_log", "stop_persist", "stop_log", "fc_getTrades",
               "closeTrade", "closeLog", "getConfig", "getTrades", "getMetrics",
               "logReturn", "goalLog", "trailUpdate", "trailLog", "createTrade",
               "logEnd", "catchLog"}

\* ------------------------------------------------------------ startBot
\* A startBot that lacks the activeBots.has test: every call goes on to register.
StartBotUnchecked(u, c) ==
  /\ u \in scope.users
  /\ c \in scope.configs
  /\ Config[c].userId = u
  /\ configs[c] # "absent"
  /\ nextBot <= scope.bots
  /\ CanSpawn
  /\ bots' = [bots EXCEPT ![nextBot] =
                [userId |-> u, configId |-> c, currentPosition |-> NoTrade,
                 dailyTrades |-> 0, dailyProfit |-> 0, lastActivity |-> now]]
  /\ activeBots' = [activeBots EXCEPT ![u] = nextBot]
  /\ nextBot' = nextBot + 1
  /\ Spawn([op |-> "startBot", user |-> u, pc |-> "start_persist",
            bs |-> nextBot, cfg |-> c] @@ Idle)
  /\ stopAcked' = [stopAcked EXCEPT ![u] = FALSE]
  /\ out' = {Call(u, "startBot")}
  /\ UNCHANGED <<intervalHandles, timers, configs, trades, now, faults, scope>>

\* startBot from its call to the await of storage.updateBotConfiguration.
StartBot(u, c) ==
  /\ u \in scope.users
  /\ c \in scope.configs
  /\ Config[c].userId = u
  /\ configs[c] # "absent"
  /\ IF activeBots[u] # 0
     THEN /\ out' = {Call(u, "startBot"), Ret(u, "startBot", "AlreadyActive")}
          /\ UNCHANGED <<activeBots, bots, nextBot, intervalHandles, timers, tasks,
                         configs, trades, now, faults, stopAcked, scope>>
     ELSE /\ nextBot <= scope.bots
          /\ CanSpawn
          /\ bots' = [bots EXCEPT ![nextBot] =
                        [userId |-> u, configId |-> c, currentPosition |-> NoTrade,
                         dailyTrades |-> 0, dailyProfit |-> 0, lastActivity |-> now]]
          /\ activeBots' = [activeBots EXCEPT ![u] = nextBot]
          /\ nextBot' = nextBot + 1
          /\ Spawn([op |-> "startBot", user |-> u, pc |-> "start_persist",
                    bs |-> nextBot, cfg |-> c] @@ Idle)
          /\ stopAcked' = [stopAcked EXCEPT ![u] = FALSE]
          /\ out' = {Call(u, "startBot")}
          /\ UNCHANGED <<intervalHandles, timers, configs, trades, now, faults, scope>>

\* startBot after storage.updateBotConfiguration: setInterval, the handle, the event.
\* The timer takes the identity of the BotStatus object this call created.
StartPersisted(r) ==
  /\ r.pc = "start_persist"
  /\ configs' = updateBotConfiguration(r.cfg, TRUE)
  /\ timers' = timers \cup {r.bs}
  /\ intervalHandles' = [intervalHandles EXCEPT ![r.user] = r.bs]
  /\ out' = {Event(r.user, "botStatusChange", "active")}
  /\ Goto(r, [pc |-> "start_log"])
  /\ UNCHANGED <<activeBots, bots, nextBot, trades, now, faults, stopAcked, scope>>

\* startBot after logBotActivity: the call returns.
StartLogged(r) ==
  /\ r.pc = "start_log"
  /\ out' = {Log(r.user, r.cfg, "INFO"), Ret(r.user, "startBot", "ok")}
  /\ End(r)
  /\ UNCHANGED <<activeBots, bots, nextBot, intervalHandles, timers, configs, trades,
                 now, faults, stopAcked, scope>>

\* ------------------------------------------------ stopBot, emergencyStop
\* A stopBot that lacks the forceClosePosition call: clearInterval, then
\* storage.updateBotConfiguration.
stopBotEnterNoClose(old, r, u) ==
  /\ timers' = timers \ {intervalHandles[u]}
  /\ intervalHandles' = [intervalHandles EXCEPT ![u] = 0]
  /\ Become(old, [sbs |-> activeBots[u], reason |-> "BOT_STOPPED",
                  pc |-> "stop_persist"] @@ r)

\* A stopBot whose clearInterval stops every user's timer.
stopBotEnterClearsAll(old, r, u) ==
  LET b == activeBots[u] IN
  /\ timers' = {}
  /\ intervalHandles' = [intervalHandles EXCEPT ![u] = 0]
  /\ Become(old, [sbs |-> b, reason |-> "BOT_STOPPED",
                  pc |-> IF bots[b].currentPosition.id # 0 THEN "fc_getTrades"
                         ELSE "stop_persist"] @@ r)

\* stopBot from the registry lookup to its first await, invocation old going on
\* with the locals r: clearInterval, then forceClosePosition when the BotStatus holds a position
\* (a copy read with status ATIVO), else storage.updateBotConfiguration.
stopBotEnter(old, r, u) ==
  LET b == activeBots[u] IN
  /\ timers' = timers \ {intervalHandles[u]}
  /\ intervalHandles' = [intervalHandles EXCEPT ![u] = 0]
  /\ Become(old, [sbs |-> b, reason |-> "BOT_STOPPED",
                  pc |-> IF bots[b].currentPosition.id # 0 THEN "fc_getTrades"
                         ELSE "stop_persist"] @@ r)

\* emergencyStop after the force close: clearInterval, then updateBotConfiguration.
emergencyClear(old, r, u) ==
  /\ timers' = timers \ {intervalHandles[u]}
  /\ intervalHandles' = [intervalHandles EXCEPT ![u] = 0]
  /\ Become(old, [pc |-> "stop_persist"] @@ r)

\* A stopBot that returns normally when the user has no registry entry.
StopBotSilent(u) ==
  /\ u \in scope.users
  /\ IF activeBots[u] = 0
     THEN /\ out' = {Call(u, "stopBot"), Ret(u, "stopBot", "ok")}
          /\ UNCHANGED <<activeBots, bots, nextBot, intervalHandles, timers, tasks,
                         configs, trades, now, faults, stopAcked, scope>>
     ELSE /\ CanSpawn
          /\ stopBotEnter(Idle, [op |-> "stopBot", user |-> u,
                                 openAtCall |-> OpenTrades(u)] @@ Idle, u)
          /\ out' = {Call(u, "stopBot")}
          /\ UNCHANGED <<activeBots, bots, nextBot, configs, trades, now, faults, stopAcked, scope>>

\* stopBot called by the API.
StopBot(u) ==
  /\ u \in scope.users
  /\ IF activeBots[u] = 0
     THEN /\ out' = {Call(u, "stopBot"), Ret(u, "stopBot", "NotActive")}
          /\ UNCHANGED <<activeBots, bots, nextBot, intervalHandles, timers, tasks,
                         configs, trades, now, faults, stopAcked, scope>>
     ELSE /\ CanSpawn
          /\ stopBotEnter(Idle, [op |-> "stopBot", user |-> u,
                                 openAtCall |-> OpenTrades(u)] @@ Idle, u)
          /\ out' = {Call(u, "stopBot")}
          /\ UNCHANGED <<activeBots, bots, nextBot, configs, trades, now, faults, stopAcked, scope>>

\* An emergencyStop that throws when the user has no registry entry.
EmergencyStopStrict(u) ==
  /\ u \in scope.users
  /\ IF activeBots[u] = 0
     THEN /\ out' = {Call(u, "emergencyStop"), Ret(u, "emergencyStop", "NotActive")}
          /\ UNCHANGED <<activeBots, bots, nextBot, intervalHandles, timers, tasks,
                         configs, trades, now, faults, stopAcked, scope>>
     ELSE /\ CanSpawn
          /\ LET b == activeBots[u]
                 r == [op |-> "emergencyStop", user |-> u, sbs |-> b,
                       reason |-> "EMERGENCY_STOP", openAtCall |-> OpenTrades(u)] @@ Idle
             IN  IF bots[b].currentPosition.id # 0
                 THEN /\ Spawn([pc |-> "fc_getTrades"] @@ r)
                      /\ UNCHANGED <<intervalHandles, timers>>
                 ELSE emergencyClear(Idle, r, u)
          /\ out' = {Call(u, "emergencyStop")}
          /\ UNCHANGED <<activeBots, bots, nextBot, configs, trades, now, faults, stopAcked, scope>>

\* emergencyStop called by the API.
EmergencyStop(u) ==
  /\ u \in scope.users
  /\ IF activeBots[u] = 0
     THEN /\ out' = {Call(u, "emergencyStop"), Ret(u, "emergencyStop", "ok")}
          /\ UNCHANGED <<activeBots, bots, nextBot, intervalHandles, timers, tasks,
                         configs, trades, now, faults, stopAcked, scope>>
     ELSE /\ CanSpawn
          /\ LET b == activeBots[u]
                 r == [op |-> "emergencyStop", user |-> u, sbs |-> b,
                       reason |-> "EMERGENCY_STOP", openAtCall |-> OpenTrades(u)] @@ Idle
             IN  IF bots[b].currentPosition.id # 0
                 THEN /\ Spawn([pc |-> "fc_getTrades"] @@ r)
                      /\ UNCHANGED <<intervalHandles, timers>>
                 ELSE emergencyClear(Idle, r, u)
          /\ out' = {Call(u, "emergencyStop")}
          /\ UNCHANGED <<activeBots, bots, nextBot, configs, trades, now, faults, stopAcked, scope>>

\* forceClosePosition returns to stopBot or to emergencyStop.
afterForceClose(r) ==
  IF r.reason = "BOT_STOPPED"
  THEN /\ Goto(r, [pc |-> "stop_persist"])
       /\ UNCHANGED <<intervalHandles, timers>>
  ELSE emergencyClear(r, r, r.user)

\* forceClosePosition after storage.getTrades.
ForceCloseTrades(r) ==
  LET tr == getTrades(r.user)
  IN  /\ r.pc = "fc_getTrades"
      /\ IF tr.id = 0
         THEN afterForceClose(r)
         ELSE /\ Goto(r, [pc |-> "fc_market", trade |-> tr])
              /\ UNCHANGED <<intervalHandles, timers>>
      /\ out' = {}
      /\ UNCHANGED <<activeBots, bots, nextBot, configs, trades, now, faults, stopAcked, scope>>

\* forceClosePosition after getLatestMarketData: closePosition at the live price,
\* or nothing when there is no market data.
ForceCloseMarket(r) ==
  /\ r.pc = "fc_market"
  /\ \E md \in Prices \cup {Null} :
       IF md = Null
       THEN afterForceClose(r)
       ELSE /\ Goto(r, [pc |-> "closeBroker", exitPrice |-> md])
            /\ UNCHANGED <<intervalHandles, timers>>
  /\ out' = {}
  /\ UNCHANGED <<activeBots, bots, nextBot, configs, trades, now, faults, stopAcked, scope>>

\* A stopBot / emergencyStop that lacks the emit of botStatusChange.
StopPersistedQuiet(r) ==
  /\ r.pc = "stop_persist"
  /\ configs' = updateBotConfiguration(bots[r.sbs].configId, FALSE)
  /\ activeBots' = [activeBots EXCEPT ![r.user] = 0]
  /\ out' = {}
  /\ Goto(r, [pc |-> "stop_log"])
  /\ UNCHANGED <<bots, nextBot, intervalHandles, timers, trades, now, faults, stopAcked, scope>>

\* stopBot / emergencyStop after storage.updateBotConfiguration: the registry entry
\* is deleted and the event emitted.
StopPersisted(r) ==
  /\ r.pc = "stop_persist"
  /\ configs' = updateBotConfiguration(bots[r.sbs].configId, FALSE)
  /\ activeBots' = [activeBots EXCEPT ![r.user] = 0]
  /\ out' = {Event(r.user, "botStatusChange", "inactive")}
  /\ Goto(r, [pc |-> "stop_log"])
  /\ UNCHANGED <<bots, nextBot, intervalHandles, timers, trades, now, faults, stopAcked, scope>>

\* A startBot of the user was accepted after the stop r was called: a BotStatus
\* younger than the one r found in the registry.
StartedSince(r) == \E b \in BotIds : b > r.sbs /\ bots[b].userId = r.user

\* stopBot / emergencyStop after logBotActivity: the call returns (to the API or,
\* for a stopBot called by monitorBot, to the tick, which returns too).
StopLogged(r) ==
  LET level == IF r.op = "emergencyStop" THEN "WARNING" ELSE "INFO"
  IN  /\ r.pc = "stop_log"
      /\ out' = {Log(r.user, bots[r.sbs].configId, level)}
                  \cup (IF r.nested THEN {} ELSE {Ret(r.user, r.op, "ok")})
      /\ stopAcked' = IF r.nested \/ StartedSince(r) THEN stopAcked
                      ELSE [stopAcked EXCEPT ![r.user] = TRUE]
      /\ End(r)
      /\ UNCHANGED <<activeBots, bots, nextBot, intervalHandles, timers, configs, trades,
                     now, faults, scope>>

\* ------------------------------------------------------------ monitorBot
\* The end of a tick that ran through: lastActivity, then activeBots.set with the
\* BotStatus the tick has held since it started.  B is bots as the step leaves it.
tickEnd(r, B) ==
  /\ bots' = [B EXCEPT ![r.bs].lastActivity = now]
  /\ activeBots' = [activeBots EXCEPT ![r.user] = r.bs]
  /\ End(r)

\* A timer fires: monitorBot from its call to the await of getBotConfiguration;
\* without a registry entry it returns at once.
MonitorBot(h) ==
  LET u == bots[h].userId IN
  /\ h \in timers
  /\ IF activeBots[u] = 0
     THEN /\ out' = {}
          /\ UNCHANGED <<tasks, now>>
     ELSE /\ now < scope.ticks
          /\ CanSpawn
          /\ now' = now + 1
          /\ Spawn([op |-> "monitorBot", user |-> u, pc |-> "getConfig",
                    bs |-> activeBots[u]] @@ Idle)
          /\ out' = {TickStart(u)}
  /\ UNCHANGED <<activeBots, bots, nextBot, intervalHandles, timers, configs, trades,
                 faults, stopAcked, scope>>

\* stopBot called by monitorBot: without a registry entry it throws into the
\* tick's catch, which awaits the ERROR log.
tickStop(r) ==
  IF activeBots[r.user] = 0
  THEN /\ Goto(r, [pc |-> "catchLog"])
       /\ UNCHANGED <<intervalHandles, timers>>
  ELSE stopBotEnter(r, [nested |-> TRUE] @@ r, r.user)

\* After storage.getBotConfiguration: stopBot when the row is gone, else the await
\* of getLatestMarketData.
TickConfig(r) ==
  LET config == getBotConfiguration(bots[r.bs].configId)
  IN  /\ r.pc = "getConfig"
      /\ IF config = NoConfig
         THEN tickStop(r)
         ELSE /\ Goto(r, [pc |-> "getMarket", cfg |-> config])
              /\ UNCHANGED <<intervalHandles, timers>>
      /\ out' = {}
      /\ UNCHANGED <<activeBots, bots, nextBot, configs, trades, now, faults, stopAcked, scope>>

\* A monitorBot that returns without a log when there is no market data.
TickMarketSilent(r) ==
  /\ r.pc = "getMarket"
  /\ \E md \in Prices \cup {Null} :
       IF md = Null
       THEN End(r)
       ELSE Goto(r, [pc |-> "getTrades", price |-> md])
  /\ out' = {}
  /\ UNCHANGED <<activeBots, bots, nextBot, intervalHandles, timers, configs, trades,
                 now, faults, stopAcked, scope>>

\* After getLatestMarketData: without data the WARNING log and return.
TickMarket(r) ==
  /\ r.pc = "getMarket"
  /\ \E md \in Prices \cup {Null} :
       IF md = Null
       THEN Goto(r, [pc |-> "logReturn", level |-> "WARNING"])
       ELSE Goto(r, [pc |-> "getTrades", price |-> md])
  /\ out' = {}
  /\ UNCHANGED <<activeBots, bots, nextBot, intervalHandles, timers, configs, trades,
                 now, faults, stopAcked, scope>>

\* After storage.getTrades: botStatus.currentPosition = openTrades[0] || undefined.
TickTrades(r) ==
  /\ r.pc = "getTrades"
  /\ bots' = [bots EXCEPT ![r.bs].currentPosition = getTrades(r.user)]
  /\ Goto(r, [pc |-> "getMetrics"])
  /\ out' = {}
  /\ UNCHANGED <<activeBots, nextBot, intervalHandles, timers, configs, trades,
                 now, faults, stopAcked, scope>>

\* monitorPosition up to its first await: the exit decision, then the trailing stop
\* when it is enabled and nothing closes, then closePosition when something does.
monitorPosition(r, B) ==
  LET config == Config[r.cfg]
      trade == B[r.bs].currentPosition
      row == trades[trade.id]
      exit == ExitDecision(row.tipo, row.pontosTakeProfit, trade.pontosStopLoss, r.price)
      trail == TrailingStop(row.tipo, trade.pontosStopLoss, r.price,
                            config.trailingStopPontos)
  IN  IF config.trailingStopAtivo /\ ~exit.shouldClose /\ trail.updated
      THEN /\ Goto(r, [pc |-> "trailUpdate", trade |-> trade,
                       newSL |-> trail.newStopLoss])
           /\ bots' = B
           /\ UNCHANGED activeBots
      ELSE IF exit.shouldClose
      THEN /\ Goto(r, [pc |-> "closeBroker", trade |-> trade,
                       exitPrice |-> exit.exitPrice, reason |-> exit.exitReason])
           /\ bots' = B
           /\ UNCHANGED activeBots
      ELSE tickEnd(r, B)

\* A monitorBot that lacks the test of the daily trade limit.
TickMetricsNoLimit(r) ==
  LET config == Config[r.cfg]
      dailyMetrics == getDailyMetrics(r.user)
      B == [bots EXCEPT ![r.bs].dailyTrades = dailyMetrics.totalTrades,
                        ![r.bs].dailyProfit = dailyMetrics.totalProfit]
  IN  /\ r.pc = "getMetrics"
      /\ IF B[r.bs].dailyProfit >= config.metaLucroDiario
         THEN /\ Goto(r, [pc |-> "goalLog"])
              /\ bots' = B
              /\ UNCHANGED activeBots
         ELSE IF B[r.bs].currentPosition.id # 0
         THEN monitorPosition(r, B)
         ELSE /\ Goto(r, [pc |-> "getIndicators"])
              /\ bots' = B
              /\ UNCHANGED activeBots
      /\ out' = {}
      /\ UNCHANGED <<nextBot, intervalHandles, timers, configs, trades, now, faults,
                     stopAcked, scope>>

\* After storage.getDailyMetrics: the daily limits, then the position or the entry.
TickMetrics(r) ==
  LET config == Config[r.cfg]
      dailyMetrics == getDailyMetrics(r.user)
      B == [bots EXCEPT ![r.bs].dailyTrades = dailyMetrics.totalTrades,
                        ![r.bs].dailyProfit = dailyMetrics.totalProfit]
  IN  /\ r.pc = "getMetrics"
      /\ IF B[r.bs].dailyTrades >= config.maxTradesDia
         THEN /\ Goto(r, [pc |-> "logReturn", level |-> "INFO"])
              /\ bots' = B
              /\ UNCHANGED activeBots
         ELSE IF B[r.bs].dailyProfit >= config.metaLucroDiario
         THEN /\ Goto(r, [pc |-> "goalLog"])
              /\ bots' = B
              /\ UNCHANGED activeBots
         ELSE IF B[r.bs].currentPosition.id # 0
         THEN monitorPosition(r, B)
         ELSE /\ Goto(r, [pc |-> "getIndicators"])
              /\ bots' = B
              /\ UNCHANGED activeBots
      /\ out' = {}
      /\ UNCHANGED <<nextBot, intervalHandles, timers, configs, trades, now, faults,
                     stopAcked, scope>>

\* After a logBotActivity that precedes a return inside the try block (no market
\* data, daily trade limit): the tick returns without reaching its last lines.
TickLogReturn(r) ==
  /\ r.pc = "logReturn"
  /\ out' = {Log(r.user, r.cfg, r.level)}
  /\ End(r)
  /\ UNCHANGED <<activeBots, bots, nextBot, intervalHandles, timers, configs, trades,
                 now, faults, stopAcked, scope>>

\* After the "meta diaria atingida" log: stopBot.
TickGoalLog(r) ==
  /\ r.pc = "goalLog"
  /\ out' = {Log(r.user, r.cfg, "INFO")}
  /\ tickStop(r)
  /\ UNCHANGED <<activeBots, bots, nextBot, configs, trades, now, faults, stopAcked, scope>>

\* updateTrailingStop after storage.updateTradeStopLoss.
TrailUpdated(r) ==
  /\ r.pc = "trailUpdate"
  /\ trades' = updateTradeStopLoss(r.trade.id, r.newSL)
  /\ Goto(r, [pc |-> "trailLog"])
  /\ out' = {}
  /\ UNCHANGED <<activeBots, bots, nextBot, intervalHandles, timers, configs,
                 now, faults, stopAcked, scope>>

\* updateTrailingStop after its log: monitorPosition returns and the tick ends.
TrailLogged(r) ==
  /\ r.pc = "trailLog"
  /\ out' = {Log(r.user, trades[r.trade.id].botConfigId, "INFO")}
  /\ tickEnd(r, bots)
  /\ UNCHANGED <<nextBot, intervalHandles, timers, configs, trades, now, faults,
                 stopAcked, scope>>

\* evaluateEntry after getTechnicalIndicators (<<>>: null, <<i>>: the row i):
\* executeEntry up to the broker call when the score says enter.  A null result
\* is recorded among the step's outputs (console output of MarketDataService
\* aside, the code writes nothing for it).
TickIndicators(r) ==
  /\ r.pc = "getIndicators"
  /\ \E technicalIndicators \in {<<>>} \cup {<<i>> : i \in IndicatorSets},
        clock \in Clocks :
       IF technicalIndicators = <<>>
       THEN /\ tickEnd(r, bots)
            /\ out' = {NoData(r.user, "indicators")}
       ELSE LET entryScore == calculateEntryScore(technicalIndicators[1], clock)
            IN  /\ IF entryScore.shouldEnter
                   THEN /\ Goto(r, [pc |-> "entryBroker", dir |-> entryScore.direction])
                        /\ UNCHANGED <<activeBots, bots>>
                   ELSE tickEnd(r, bots)
                /\ out' = {}
  /\ UNCHANGED <<nextBot, intervalHandles, timers, configs, trades, now, faults,
                 stopAcked, scope>>

\* An executeEntry that lacks the brokerResult.success test: storage.createTrade
\* follows the broker call whatever it reports.
EntryBrokerUnchecked(r) ==
  /\ r.pc = "entryBroker"
  /\ \E success \in BOOLEAN :
       /\ Goto(r, [pc |-> "createTrade"])
       /\ out' = IF success THEN {Order(r.user, r.dir, r.price)} ELSE {}
  /\ UNCHANGED <<activeBots, bots, nextBot, intervalHandles, timers, configs, trades,
                 now, faults, stopAcked, scope>>

\* executeEntry after brokerService.executeTrade: the ERROR log on failure, else
\* storage.createTrade.
EntryBroker(r) ==
  /\ r.pc = "entryBroker"
  /\ \E success \in BOOLEAN :
       IF success
       THEN /\ Goto(r, [pc |-> "createTrade"])
            /\ out' = {Order(r.user, r.dir, r.price)}
       ELSE /\ Goto(r, [pc |-> "logEnd", level |-> "ERROR"])
            /\ out' = {}
  /\ UNCHANGED <<activeBots, bots, nextBot, intervalHandles, timers, configs, trades,
                 now, faults, stopAcked, scope>>

\* executeEntry after storage.createTrade: the tradeUpdate event.
EntryCreated(r) ==
  /\ r.pc = "createTrade"
  /\ Len(trades) < scope.trades
  /\ trades' = createTrade(r.user, r.cfg, r.dir, r.price)
  /\ out' = {Event(r.user, "tradeUpdate", "ATIVO")}
  /\ Goto(r, [pc |-> "logEnd", level |-> "INFO"])
  /\ UNCHANGED <<activeBots, bots, nextBot, intervalHandles, timers, configs,
                 now, faults, stopAcked, scope>>

\* executeEntry after its log (trade executed, or execution failed): the tick ends.
EntryLogged(r) ==
  /\ r.pc = "logEnd"
  /\ out' = {Log(r.user, r.cfg, r.level)}
  /\ tickEnd(r, bots)
  /\ UNCHANGED <<nextBot, intervalHandles, timers, configs, trades, now, faults,
                 stopAcked, scope>>

\* ---------------------------------------------------------- closePosition
\* closePosition after brokerService.executeTrade (the closing order; its result
\* is not looked at).
CloseBroker(r) ==
  LET row == trades[r.trade.id]
  IN  /\ r.pc = "closeBroker"
      /\ out' = {Order(r.user, IF row.tipo = "COMPRA" THEN "VENDA" ELSE "COMPRA",
                       r.exitPrice)}
      /\ Goto(r, [pc |-> "closeTrade"])
      /\ UNCHANGED <<activeBots, bots, nextBot, intervalHandles, timers, configs, trades,
                     now, faults, stopAcked, scope>>

\* closePosition after storage.closeTrade: the tradeUpdate event.
CloseStored(r) ==
  /\ r.pc = "closeTrade"
  /\ trades' = closeTrade(r.trade.id, r.exitPrice, r.reason)
  /\ out' = {Event(r.user, "tradeUpdate", "FECHADO")}
  /\ Goto(r, [pc |-> "closeLog"])
  /\ UNCHANGED <<activeBots, bots, nextBot, intervalHandles, timers, configs,
                 now, faults, stopAcked, scope>>

\* closePosition after its log: back in monitorPosition the tick ends; back in
\* forceClosePosition the stop goes on.
CloseLogged(r) ==
  /\ r.pc = "closeLog"
  /\ out' = {Log(r.user, trades[r.trade.id].botConfigId, "INFO")}
  /\ IF r.reason \in {"TAKE_PROFIT", "STOP_LOSS"}
     THEN /\ tickEnd(r, bots)
          /\ UNCHANGED <<intervalHandles, timers>>
     ELSE /\ afterForceClose(r)
          /\ UNCHANGED <<activeBots, bots>>
  /\ UNCHANGED <<nextBot, configs, trades, now, faults, stopAcked, scope>>

\* ------------------------------------------------------------ failures
\* The awaited storage call throws.  In monitorBot (and in a stopBot it called) the
\* catch block awaits the ERROR log; thrown by that log, or in an API call, the
\* error leaves the function.
StorageThrows(r) ==
  /\ r.pc \in StoragePcs
  /\ faults < scope.faults
  /\ faults' = faults + 1
  /\ IF r.op = "monitorBot" /\ r.pc # "catchLog"
     THEN /\ Goto(r, [pc |-> "catchLog"])
          /\ out' = {}
     ELSE /\ End(r)
          /\ out' = IF r.op = "monitorBot" THEN {} ELSE {Ret(r.user, r.op, "error")}
  /\ UNCHANGED <<activeBots, bots, nextBot, intervalHandles, timers, configs, trades,
                 now, stopAcked, scope>>

\* The catch block of monitorBot after its ERROR log.
TickCaught(r) ==
  /\ r.pc = "catchLog"
  /\ out' = {Log(r.user, bots[r.bs].configId, "ERROR")}
  /\ End(r)
  /\ UNCHANGED <<activeBots, bots, nextBot, intervalHandles, timers, configs, trades,
                 now, faults, stopAcked, scope>>

\* ------------------------------------------------------------ routes
\* DELETE /api/bot-configurations/:id
DeleteConfig(c) ==
  /\ scope.deletes
  /\ configs[c] # "absent"
  /\ configs' = [configs EXCEPT ![c] = "absent"]
  /\ out' = {}
  /\ UNCHANGED <<activeBots, bots, nextBot, intervalHandles, timers, tasks, trades,
                 now, faults, stopAcked, scope>>

\* POST /api/trades: storage.createTrade with the request body and the caller's id.
PostTrade(u) ==
  /\ scope.posts
  /\ u \in scope.users
  /\ Len(trades) < scope.trades
  /\ \E body \in TradeBodies : trades' = Append(trades, [userId |-> u] @@ body)
  /\ out' = {}
  /\ UNCHANGED <<activeBots, bots, nextBot, intervalHandles, timers, tasks, configs,
                 now, faults, stopAcked, scope>>

\* ------------------------------------------------------- specification
\* The engine and the storage right after construction.
Fresh ==
  /\ activeBots = [u \in Users |-> 0]
  /\ bots = [b \in BotIds |-> NoBot]
  /\ nextBot = 1
  /\ intervalHandles = [u \in Users |-> 0]
  /\ timers = {}
  /\ tasks = EmptyBag
  /\ configs = [c \in ConfigIds |-> "inactive"]
  /\ trades = <<>>
  /\ now = 0
  /\ faults = 0
  /\ stopAcked = [u \in Users |-> FALSE]
  /\ out = {}

Init ==
  /\ Fresh
  /\ scope \in Scopes

Next ==
  \/ \E u \in Users, c \in ConfigIds : StartBot(u, c)
  \/ \E u \in Users : StopBot(u)
  \/ \E u \in Users : EmergencyStop(u)
  \/ \E h \in BotIds : MonitorBot(h)
  \/ \E c \in ConfigIds : DeleteConfig(c)
  \/ \E u \in Users : PostTrade(u)
  \/ \E r \in BagToSet(tasks) : StartPersisted(r)
  \/ \E r \in BagToSet(tasks) : StartLogged(r)
  \/ \E r \in BagToSet(tasks) : ForceCloseTrades(r)
  \/ \E r \in BagToSet(tasks) : ForceCloseMarket(r)
  \/ \E r \in BagToSet(tasks) : StopPersisted(r)
  \/ \E r \in BagToSet(tasks) : StopLogged(r)
  \/ \E r \in BagToSet(tasks) : TickConfig(r)
  \/ \E r \in BagToSet(tasks) : TickMarket(r)
  \/ \E r \in BagToSet(tasks) : TickTrades(r)
  \/ \E r \in BagToSet(tasks) : TickMetrics(r)
  \/ \E r \in BagToSet(tasks) : TickLogReturn(r)
  \/ \E r \in BagToSet(tasks) : TickGoalLog(r)
  \/ \E r \in BagToSet(tasks) : TrailUpdated(r)
  \/ \E r \in BagToSet(tasks) : TrailLogged(r)
  \/ \E r \in BagToSet(tasks) : TickIndicators(r)
  \/ \E r \in BagToSet(tasks) : EntryBroker(r)
  \/ \E r \in BagToSet(tasks) : EntryCreated(r)
  \/ \E r \in BagToSet(tasks) : EntryLogged(r)
  \/ \E r \in BagToSet(tasks) : CloseBroker(r)
  \/ \E r \in BagToSet(tasks) : CloseStored(r)
  \/ \E r \in BagToSet(tasks) : CloseLogged(r)
  \/ \E r \in BagToSet(tasks) : StorageThrows(r)
  \/ \E r \in BagToSet(tasks) : TickCaught(r)

Spec == Init /\ [][Next]_vars

\* ---------------------------------------------------------------- claims
\* The monitorBot invocations of user u in flight.
TicksInFlight(u) ==
  LET S == {r \in BagToSet(tasks) : r.op = "monitorBot" /\ r.user = u}
  IN  BagCardinality([r \in S |-> CopiesIn(r, tasks)])

\* Invocation r takes this step.
Steps(r) == CopiesIn(r, tasks') < CopiesIn(r, tasks)

\* Invocation r is a tick inside the stopBot it called because the daily profit
\* target was reached (the other stopBot of a tick has no configuration row).
GoalStop(r) == r.op = "monitorBot" /\ r.nested /\ r.cfg # NoConfig

\* The position the tick r refreshed is open and the tick's price is at or beyond
\* its take-profit or its stop-loss.
ExitDue(r) ==
  LET trade == bots[r.bs].currentPosition
  IN  /\ trade.id # 0
      /\ trades[trade.id].status = "ATIVO"
      /\ ExitDecision(trades[trade.id].tipo, trades[trade.id].pontosTakeProfit,
                      trade.pontosStopLoss, r.price).shouldClose

\* C1: a startBot call for a user who has a registry entry fails with the
\* already-active error and has no side effect: the registry, the BotStatus objects,
\* the timers and their handles, the persisted configurations, the invocations in
\* flight and the trades are unchanged, and the step produces no event and no log.
C1_StartRejectedNoEffect ==
  [][\A u \in Users :
       (Call(u, "startBot") \in out' /\ activeBots[u] # 0)
         => /\ out' = {Call(u, "startBot"), Ret(u, "startBot", "AlreadyActive")}
            /\ UNCHANGED <<activeBots, bots, nextBot, intervalHandles, timers, tasks,
                           configs, trades>>]_vars

\* C1's case: a second startBot has just been rejected while the first call's
\* registry entry, timer and active configuration are in place.
C1_Witness ==
  \E u \in Users :
    /\ Ret(u, "startBot", "AlreadyActive") \in out
    /\ activeBots[u] # 0
    /\ intervalHandles[u] = activeBots[u]
    /\ intervalHandles[u] \in timers
    /\ configs[bots[activeBots[u]].configId] = "active"

\* C2: the monitoring ticks of one user never overlap: at most one monitorBot
\* invocation of a user is in flight.
C2_TicksNeverOverlap == \A u \in Users : TicksInFlight(u) <= 1

\* C3: after stopBot or emergencyStop has returned, no monitoring tick of that user
\* starts until a later startBot is accepted.
C3_NoTickAfterStop == \A u \in Users : stopAcked[u] => TickStart(u) \notin out

\* C4: when stopBot or emergencyStop returns successfully, every position that was
\* open when it was called has been closed.
C4_StopLeavesNoOpenPosition ==
  [][\A r \in BagToSet(tasks) :
       (StopLogged(r) /\ ~r.nested)
         => \A i \in r.openAtCall : trades'[i].status = "FECHADO"]_vars

\* C5: after stopBot or emergencyStop has returned, the user has no registry entry
\* (getBotStatus is null) until the next startBot is accepted.
C5_StatusNullAfterStop == \A u \in Users : stopAcked[u] => activeBots[u] = 0

\* C6: each user has at most one open position created by the engine.
C6_AtMostOneOpenPosition ==
  \A u \in Users :
    Cardinality({i \in OpenTrades(u) : trades[i].botConfigId # NoConfig}) <= 1

\* C7: a tick that returns at the daily trade limit has still monitored the open
\* position: when the price is at or beyond its take-profit or stop-loss, the
\* position is closed when the tick returns.
C7_LimitTickStillMonitors ==
  [][\A r \in BagToSet(tasks) :
       (TickLogReturn(r) /\ r.level = "INFO" /\ ExitDue(r))
         => trades'[bots[r.bs].currentPosition.id].status = "FECHADO"]_vars

\* C8: a tick that read a profit of today at or above the target ends with the bot
\* stopped (timer cancelled, registry entry removed, configuration inactive), also
\* when it returns at the daily trade limit.
C8_GoalStopsWhateverTheCount ==
  [][\A r \in BagToSet(tasks) :
       (TickLogReturn(r) /\ r.level = "INFO"
          /\ bots[r.bs].dailyProfit >= Config[r.cfg].metaLucroDiario)
         => /\ activeBots'[r.user] = 0
            /\ intervalHandles'[r.user] \notin timers'
            /\ configs'[r.cfg] = "inactive"]_vars

\* C9 as stated: the stop of a tick that reached the daily profit target closes
\* nothing: no step of it changes the trades.
C9_GoalStopClosesNothing ==
  [][\A r \in BagToSet(tasks) : (GoalStop(r) /\ Steps(r)) => trades' = trades]_vars

\* C9 amended: the stop of a tick that reached the daily profit target is stopBot:
\* when the BotStatus holds an open position it goes into forceClosePosition, and
\* what it writes to the trades is the close of the position it found, with reason
\* BOT_STOPPED at the live price.
C9_GoalStopForceCloses ==
  [][\A r \in BagToSet(tasks) :
       /\ (TickGoalLog(r) /\ activeBots[r.user] # 0
             /\ bots[activeBots[r.user]].currentPosition.id # 0)
            => BagIn([pc |-> "fc_getTrades", nested |-> TRUE, reason |-> "BOT_STOPPED",
                      sbs |-> activeBots[r.user]] @@ r, tasks')
       /\ (GoalStop(r) /\ Steps(r) /\ trades' # trades)
            => /\ r.exitPrice \in Prices
               /\ r.trade.id \in TradeIds
               /\ trades[r.trade.id].userId = r.user
               /\ trades' = closeTrade(r.trade.id, r.exitPrice, "BOT_STOPPED")]_vars

\* C9's case: a tick that reached the target has force-closed the open position.
C9_Witness ==
  \E r \in BagToSet(tasks) :
    /\ GoalStop(r)
    /\ r.pc = "closeLog"
    /\ trades[r.trade.id].status = "FECHADO"
    /\ trades[r.trade.id].motivoSaida = "BOT_STOPPED"
    /\ trades[r.trade.id].pontosSaida = r.exitPrice

\* C10: a failure in a monitoring tick does not cancel the user's monitoring: in
\* the catch block of a tick whose user is registered, with no startBot, stopBot or
\* emergencyStop call of that user in flight, the user's timer is still installed.
C10_TickFailureKeepsMonitoring ==
  \A r \in BagToSet(tasks) :
    ( /\ r.op = "monitorBot"
      /\ r.pc = "catchLog"
      /\ activeBots[r.user] # 0
      /\ \A s \in BagToSet(tasks) : s.user = r.user => s.op = "monitorBot" )
      => intervalHandles[r.user] \in timers

\* Invocation r goes on in this step with the locals upd changed.
Reaches(r, upd) == CopiesIn(upd @@ r, tasks') > CopiesIn(upd @@ r, tasks)

\* The events of user u among the outputs of a step.
Events(u, o) == {e \in o : e[1] = "event" /\ e[2] = u}

\* C11: when the broker reports failure for an entry order the entry is abandoned:
\* the step creates no trade and emits no event and goes on to the ERROR log, after
\* which the tick ends with the trades unchanged, the timers in place and the
\* BotStatus registered; and only a broker call that reports success (the order is
\* placed) takes executeEntry on to storage.createTrade.
C11_FailedEntryAbandoned ==
  [][\A r \in BagToSet(tasks) :
       /\ (r.pc = "entryBroker" /\ Steps(r) /\ Order(r.user, r.dir, r.price) \notin out')
            => /\ trades' = trades
               /\ Events(r.user, out') = {}
               /\ Reaches(r, [pc |-> "logEnd", level |-> "ERROR"])
       /\ (r.pc = "entryBroker" /\ Steps(r) /\ Reaches(r, [pc |-> "createTrade"]))
            => Order(r.user, r.dir, r.price) \in out'
       /\ (r.pc = "logEnd" /\ r.level = "ERROR" /\ EntryLogged(r))
            => /\ Log(r.user, r.cfg, "ERROR") \in out'
               /\ Events(r.user, out') = {}
               /\ trades' = trades
               /\ timers' = timers
               /\ activeBots'[r.user] = r.bs]_vars

\* C11's case: the broker has refused an entry order and the tick awaits its ERROR
\* log, with no trade recorded and the bot registered with its timer.
C11_Witness ==
  \E r \in BagToSet(tasks) :
    /\ r.op = "monitorBot" /\ r.pc = "logEnd" /\ r.level = "ERROR"
    /\ OpenTrades(r.user) = {}
    /\ activeBots[r.user] = r.bs
    /\ intervalHandles[r.user] \in timers

\* C12: the stop-loss of an open position only tightens: while a trade stays open,
\* no step lowers the stop-loss of a COMPRA or raises the stop-loss of a VENDA.
C12_StopNeverLoosens ==
  [][\A i \in TradeIds :
       (trades[i].status = "ATIVO" /\ trades'[i].status = "ATIVO")
         => IF trades[i].tipo = "COMPRA"
            THEN trades'[i].pontosStopLoss >= trades[i].pontosStopLoss
            ELSE trades'[i].pontosStopLoss <= trades[i].pontosStopLoss]_vars

\* C13: on each tick with an open position, a config, a price and a profit of today
\* below the target, a price at or beyond the take-profit or the stop-loss closes
\* the position: the tick goes from the daily metrics to closePosition with the
\* reason TAKE_PROFIT or STOP_LOSS (take-profit first) and the level as exit price.
C13_ExitOnEveryTick ==
  [][\A r \in BagToSet(tasks) :
       LET trade == bots[r.bs].currentPosition
           row == trades[trade.id]
           exit == ExitDecision(row.tipo, row.pontosTakeProfit, trade.pontosStopLoss,
                                r.price)
       IN  ( /\ r.op = "monitorBot" /\ r.pc = "getMetrics" /\ Steps(r)
             /\ faults' = faults
             /\ trade.id # 0
             /\ getDailyMetrics(r.user).totalProfit < Config[r.cfg].metaLucroDiario
             /\ exit.shouldClose )
             => Reaches(r, [pc |-> "closeBroker", trade |-> trade,
                            exitPrice |-> exit.exitPrice, reason |-> exit.exitReason])]_vars

\* ------------------------------------------- the pure functions on their own
\* Strategy configurations insertBotConfigurationSchema accepts: its integer
\* columns have no lower bound.  metaLucroDiario in centavos.
AcceptedConfigs ==
  [contratoPreferido : {"WIN", "WDO"}, contratos : {1, 2},
   metaLucroDiario : {0, 100, 50000}, stopLossPontos : {-1, 0, 1, 150},
   maxTradesDia : {1, 3, 10}]

\* marketData.close at an entry.
EntryPrices == {10, 112000}

\* The environment of a run that only calls the pure functions.
PureScope ==
  [name |-> "pure functions", users |-> {}, configs |-> {}, bots |-> 0, tasks |-> 0,
   ticks |-> 0, trades |-> 0, faults |-> 0, deletes |-> FALSE, posts |-> FALSE]

\* executeEntry / runBacktest compute the levels of a new position.
ApplyEntryLevels ==
  /\ out = {}
  /\ \E config \in AcceptedConfigs, entryPrice \in EntryPrices,
        direction \in {"COMPRA", "VENDA"} :
       out' = {[fn |-> "executeEntry", config |-> config, entryPrice |-> entryPrice,
                direction |-> direction,
                result |-> EntryLevels(config, entryPrice, direction)]}
  /\ UNCHANGED <<activeBots, bots, nextBot, intervalHandles, timers, tasks, configs,
                 trades, now, faults, stopAcked, scope>>

\* calculateTargetPoints is called on a configuration.
ApplyTargetPoints ==
  /\ out = {}
  /\ \E config \in AcceptedConfigs :
       out' = {[fn |-> "calculateTargetPoints", config |-> config,
                result |-> calculateTargetPoints(config)]}
  /\ UNCHANGED <<activeBots, bots, nextBot, intervalHandles, timers, tasks, configs,
                 trades, now, faults, stopAcked, scope>>

\* Indicator rows calculateEntryScore can be given: RSI around each of its bands
\* (an absent RSI compares as 0), both orders of the EMAs and of the MACD pair
\* and their equality, volatility around its band.
ScoreIndicators ==
  [rsi : {0, 29, 30, 34, 35, 55, 65, 66, 70, 71, 85}, ema9 : {1, 2}, ema21 : {1, 2},
   macd : {-15, 15}, macdSignal : {-10, 15}, volatilidade : {19, 20, 100, 200, 201, 500}]

\* Wall-clock times (hour, minute) around the edges of the trading window.
ScoreClocks ==
  { <<0, 0>>, <<9, 0>>, <<9, 29>>, <<9, 30>>, <<12, 0>>, <<16, 59>>, <<17, 0>>, <<17, 25>>,
    <<17, 26>>, <<18, 0>> }

\* calculateEntryScore is called on an indicator row at a wall-clock time.
ApplyEntryScore ==
  /\ out = {}
  /\ \E indicators \in ScoreIndicators, clock \in ScoreClocks :
       out' = {[fn |-> "calculateEntryScore", indicators |-> indicators, clock |-> clock,
                result |-> calculateEntryScore(indicators, clock)]}
  /\ UNCHANGED <<activeBots, bots, nextBot, intervalHandles, timers, tasks, configs,
                 trades, now, faults, stopAcked, scope>>

\* ------------------------------------------------------------ runBacktest
\* runBacktest needs MinBars bars and evaluates bars from index FirstBar on.
MinBars == 50

FirstBar == 21

\* The bars before the end of a series whose close and indicators vary; the bars
\* between bar FirstBar and these are flat and give no entry signal.
TailBars == 5

\* getHistoricalData returned no array.
NoSeries == -1

\* Lengths of the series getHistoricalData returns.
SeriesLengths == {NoSeries, 0, 21, 49, 50, 51}

\* Closing prices of the bars that vary, and the close of a flat bar.
Closes == {9, 10, 11, 12}

FlatClose == 10

\* Indicators of a flat bar: overbought, volatile, falling (no entry).
QuietIndicators ==
  [rsi |-> 85, ema9 |-> 1, ema21 |-> 2, macd |-> 1, macdSignal |-> 1, volatilidade |-> 500]

\* Configurations backtested: target 1 point with stop 1, target 2 points with
\* stop 1, and target 2 points with stop 0 for two contracts.
BacktestConfigs ==
  { [contratoPreferido |-> "WIN", contratos |-> 1, metaLucroDiario |-> 20,
     stopLossPontos |-> 1, maxTradesDia |-> 1],
    [contratoPreferido |-> "WIN", contratos |-> 1, metaLucroDiario |-> 120,
     stopLossPontos |-> 1, maxTradesDia |-> 3],
    [contratoPreferido |-> "WIN", contratos |-> 2, metaLucroDiario |-> 240,
     stopLossPontos |-> 0, maxTradesDia |-> 3] }

\* currentPosition = null.
NoPosition ==
  [entryPrice |-> 0, entryTime |-> 0, direction |-> "-", takeProfit |-> 0, stopLoss |-> 0]

\* A quotient n / d of the result, kept exact.
Quotient(n, d) == [num |-> n, den |-> d]

\* No BacktestResult.
NoResult ==
  [totalTrades |-> 0, winningTrades |-> 0, losingTrades |-> 0, totalReturn |-> 0,
   averageReturn |-> Quotient(0, 1), maxDrawdown |-> 0, winRate |-> Quotient(0, 1),
   trades |-> <<>>]

\* The bar at index i of a series of len bars can vary.
Eventful(i, len) == i <= FirstBar \/ i >= len - TailBars

\* An exit branch that settles at the close of the bar.
BacktestExitAtClose(currentPosition, close) ==
  IF currentPosition.direction = "COMPRA"
  THEN IF close >= currentPosition.takeProfit
       THEN [shouldExit |-> TRUE, exitPrice |-> close, exitReason |-> "TAKE_PROFIT"]
       ELSE IF close <= currentPosition.stopLoss
       THEN [shouldExit |-> TRUE, exitPrice |-> close, exitReason |-> "STOP_LOSS"]
       ELSE [shouldExit |-> FALSE, exitPrice |-> close, exitReason |-> "TIME"]
  ELSE IF close <= currentPosition.takeProfit
       THEN [shouldExit |-> TRUE, exitPrice |-> close, exitReason |-> "TAKE_PROFIT"]
       ELSE IF close >= currentPosition.stopLoss
       THEN [shouldExit |-> TRUE, exitPrice |-> close, exitReason |-> "STOP_LOSS"]
       ELSE [shouldExit |-> FALSE, exitPrice |-> close, exitReason |-> "TIME"]

\* The exit branch of the loop: shouldExit, exitPrice and exitReason for the open
\* position at the close of the current bar.
BacktestExit(currentPosition, close) ==
  IF currentPosition.direction = "COMPRA"
  THEN IF close >= currentPosition.takeProfit
       THEN [shouldExit |-> TRUE, exitPrice |-> currentPosition.takeProfit,
             exitReason |-> "TAKE_PROFIT"]
       ELSE IF close <= currentPosition.stopLoss
       THEN [shouldExit |-> TRUE, exitPrice |-> currentPosition.stopLoss,
             exitReason |-> "STOP_LOSS"]
       ELSE [shouldExit |-> FALSE, exitPrice |-> close, exitReason |-> "TIME"]
  ELSE IF close <= currentPosition.takeProfit
       THEN [shouldExit |-> TRUE, exitPrice |-> currentPosition.takeProfit,
             exitReason |-> "TAKE_PROFIT"]
       ELSE IF close >= currentPosition.stopLoss
       THEN [shouldExit |-> TRUE, exitPrice |-> currentPosition.stopLoss,
             exitReason |-> "STOP_LOSS"]
       ELSE [shouldExit |-> FALSE, exitPrice |-> close, exitReason |-> "TIME"]

\* One iteration of the loop on the bar (close, indicators) at index b.i, evaluated
\* at wall-clock time clock; a bar's timestamp is its index.
BacktestStep(b, close, indicators, clock) ==
  IF b.currentPosition = NoPosition
  THEN LET entryScore == calculateEntryScore(indicators, clock)
           levels == EntryLevels(b.config, close, entryScore.direction)
       IN  IF entryScore.shouldEnter
           THEN [b EXCEPT !.i = @ + 1,
                          !.currentPosition =
                             [entryPrice |-> close, entryTime |-> b.i,
                              direction |-> entryScore.direction,
                              takeProfit |-> levels.takeProfit,
                              stopLoss |-> levels.stopLoss]]
           ELSE [b EXCEPT !.i = @ + 1]
  ELSE LET exit == BacktestExit(b.currentPosition, close)
           pointsGained == IF b.currentPosition.direction = "COMPRA"
                           THEN exit.exitPrice - b.currentPosition.entryPrice
                           ELSE b.currentPosition.entryPrice - exit.exitPrice
           tradeReturn == pointsGained * getContractSpec(b.config.contratoPreferido).valorPonto
                            * b.config.contratos
       IN  IF exit.shouldExit
           THEN [b EXCEPT !.i = @ + 1,
                          !.totalReturn = @ + tradeReturn,
                          !.trades = Append(@,
                             [entryTime |-> b.currentPosition.entryTime, exitTime |-> b.i,
                              direction |-> b.currentPosition.direction,
                              entryPrice |-> b.currentPosition.entryPrice,
                              exitPrice |-> exit.exitPrice, pointsGained |-> pointsGained,
                              return |-> tradeReturn, reason |-> exit.exitReason]),
                          !.currentPosition = NoPosition]
           ELSE [b EXCEPT !.i = @ + 1]

\* The max drawdown loop from trade k on.
RECURSIVE DrawdownLoop(_, _, _, _, _)
DrawdownLoop(trs, k, runningTotal, peak, maxDrawdown) ==
  IF k > Len(trs) THEN maxDrawdown
  ELSE LET total == runningTotal + trs[k].return
           newPeak == IF total > peak THEN total ELSE peak
           drawdown == newPeak - total
       IN  DrawdownLoop(trs, k + 1, total, newPeak,
                        IF drawdown > maxDrawdown THEN drawdown ELSE maxDrawdown)

\* An aggregation whose win rate is a fraction of 1.
BacktestAggregateFraction(trs, totalReturn) ==
  LET winningTrades == Cardinality({k \in 1..Len(trs) : trs[k].return > 0})
      losingTrades == Cardinality({k \in 1..Len(trs) : trs[k].return <= 0})
  IN  [totalTrades |-> Len(trs), winningTrades |-> winningTrades,
       losingTrades |-> losingTrades, totalReturn |-> totalReturn,
       averageReturn |-> IF Len(trs) > 0 THEN Quotient(totalReturn, Len(trs))
                         ELSE Quotient(0, 1),
       maxDrawdown |-> DrawdownLoop(trs, 1, 0, 0, 0),
       winRate |-> IF Len(trs) > 0 THEN Quotient(winningTrades, Len(trs))
                   ELSE Quotient(0, 1),
       trades |-> trs]

\* An aggregation whose max drawdown is the decline from the start to the end.
BacktestAggregateEndToEnd(trs, totalReturn) ==
  LET winningTrades == Cardinality({k \in 1..Len(trs) : trs[k].return > 0})
      losingTrades == Cardinality({k \in 1..Len(trs) : trs[k].return <= 0})
  IN  [totalTrades |-> Len(trs), winningTrades |-> winningTrades,
       losingTrades |-> losingTrades, totalReturn |-> totalReturn,
       averageReturn |-> IF Len(trs) > 0 THEN Quotient(totalReturn, Len(trs))
                         ELSE Quotient(0, 1),
       maxDrawdown |-> IF totalReturn < 0 THEN 0 - totalReturn ELSE 0,
       winRate |-> IF Len(trs) > 0 THEN Quotient(winningTrades * 100, Len(trs))
                   ELSE Quotient(0, 1),
       trades |-> trs]

\* An aggregation that counts as losing only the trades with a negative return.
BacktestAggregateStrictLoss(trs, totalReturn) ==
  LET winningTrades == Cardinality({k \in 1..Len(trs) : trs[k].return > 0})
      losingTrades == Cardinality({k \in 1..Len(trs) : trs[k].return < 0})
  IN  [totalTrades |-> Len(trs), winningTrades |-> winningTrades,
       losingTrades |-> losingTrades, totalReturn |-> totalReturn,
       averageReturn |-> IF Len(trs) > 0 THEN Quotient(totalReturn, Len(trs))
                         ELSE Quotient(0, 1),
       maxDrawdown |-> DrawdownLoop(trs, 1, 0, 0, 0),
       winRate |-> IF Len(trs) > 0 THEN Quotient(winningTrades * 100, Len(trs))
                   ELSE Quotient(0, 1),
       trades |-> trs]

\* The aggregation after the loop.
BacktestAggregate(trs, totalReturn) ==
  LET winningTrades == Cardinality({k \in 1..Len(trs) : trs[k].return > 0})
      losingTrades == Cardinality({k \in 1..Len(trs) : trs[k].return <= 0})
  IN  [totalTrades |-> Len(trs), winningTrades |-> winningTrades,
       losingTrades |-> losingTrades, totalReturn |-> totalReturn,
       averageReturn |-> IF Len(trs) > 0 THEN Quotient(totalReturn, Len(trs))
                         ELSE Quotient(0, 1),
       maxDrawdown |-> DrawdownLoop(trs, 1, 0, 0, 0),
       winRate |-> IF Len(trs) > 0 THEN Quotient(winningTrades * 100, Len(trs))
                   ELSE Quotient(0, 1),
       trades |-> trs]

\* A runBacktest that lacks the test of the series length.
RunBacktestUnchecked ==
  /\ out = {}
  /\ \E config \in BacktestConfigs, len \in SeriesLengths :
       out' = {[fn |-> "runBacktest", config |-> config, len |-> len,
                pc |-> "loop",
                i |-> FirstBar, currentPosition |-> NoPosition, trades |-> <<>>,
                totalReturn |-> 0, result |-> NoResult]}
  /\ UNCHANGED <<activeBots, bots, nextBot, intervalHandles, timers, tasks, configs,
                 trades, now, faults, stopAcked, scope>>

\* A runBacktest whose loop starts one bar early.
RunBacktestEarly ==
  /\ out = {}
  /\ \E config \in BacktestConfigs, len \in SeriesLengths :
       out' = {[fn |-> "runBacktest", config |-> config, len |-> len,
                pc |-> IF len = NoSeries \/ len < MinBars THEN "thrown" ELSE "loop",
                i |-> FirstBar - 1, currentPosition |-> NoPosition, trades |-> <<>>,
                totalReturn |-> 0, result |-> NoResult]}
  /\ UNCHANGED <<activeBots, bots, nextBot, intervalHandles, timers, tasks, configs,
                 trades, now, faults, stopAcked, scope>>

\* runBacktest is called and getHistoricalData returns: the call is rejected for
\* a missing or short series, else the loop starts.
RunBacktest ==
  /\ out = {}
  /\ \E config \in BacktestConfigs, len \in SeriesLengths :
       out' = {[fn |-> "runBacktest", config |-> config, len |-> len,
                pc |-> IF len = NoSeries \/ len < MinBars THEN "thrown" ELSE "loop",
                i |-> FirstBar, currentPosition |-> NoPosition, trades |-> <<>>,
                totalReturn |-> 0, result |-> NoResult]}
  /\ UNCHANGED <<activeBots, bots, nextBot, intervalHandles, timers, tasks, configs,
                 trades, now, faults, stopAcked, scope>>

\* One iteration of the loop of runBacktest.
BacktestBar ==
  /\ \E b \in out :
       /\ b.fn = "runBacktest" /\ b.pc = "loop" /\ b.i < b.len
       /\ \E close \in (IF Eventful(b.i, b.len) THEN Closes ELSE {FlatClose}),
             indicators \in (IF Eventful(b.i, b.len) THEN IndicatorSets
                             ELSE {QuietIndicators}),
             clock \in Clocks :
            out' = {BacktestStep(b, close, indicators, clock)}
  /\ UNCHANGED <<activeBots, bots, nextBot, intervalHandles, timers, tasks, configs,
                 trades, now, faults, stopAcked, scope>>

\* The loop is over: runBacktest aggregates and returns.
BacktestReturn ==
  /\ \E b \in out :
       /\ b.fn = "runBacktest" /\ b.pc = "loop" /\ b.i >= b.len
       /\ out' = {[b EXCEPT !.pc = "returned",
                            !.result = BacktestAggregate(b.trades, b.totalReturn)]}
  /\ UNCHANGED <<activeBots, bots, nextBot, intervalHandles, timers, tasks, configs,
                 trades, now, faults, stopAcked, scope>>

\* Indicators of a bar that scores 40 outside the trading window and 65 inside it.
TimedIndicators ==
  [rsi |-> 55, ema9 |-> 2, ema21 |-> 1, macd |-> 1, macdSignal |-> 1, volatilidade |-> 500]

\* The bars (close and the indicators calculateIndicatorsForCandle gives at the
\* bar) that vary in the series two runs are compared on.
BarKinds == [close : {10, 11}, indicators : {QuietIndicators, TimedIndicators}]

\* Series of MinBars bars, flat but for bars FirstBar and FirstBar + 1
\* (marketData[i] is element i + 1 of the sequence).
ComparedSeries ==
  { [j \in 1..MinBars |->
       IF j = FirstBar + 1 THEN k1
       ELSE IF j = FirstBar + 2 THEN k2
       ELSE [close |-> FlatClose, indicators |-> QuietIndicators]] : k1 \in BarKinds, k2 \in BarKinds }

\* The loop of runBacktest over a series, every bar evaluated at wall-clock time clock.
RECURSIVE BacktestLoop(_, _, _)
BacktestLoop(b, series, clock) ==
  IF b.i >= b.len THEN b
  ELSE BacktestLoop(BacktestStep(b, series[b.i + 1].close, series[b.i + 1].indicators, clock),
                    series, clock)

\* runBacktest on a series of at least MinBars bars, run at wall-clock time clock.
runBacktestAt(config, series, clock) ==
  LET b == BacktestLoop([fn |-> "runBacktest", config |-> config, len |-> Len(series),
                         pc |-> "loop", i |-> FirstBar, currentPosition |-> NoPosition,
                         trades |-> <<>>, totalReturn |-> 0, result |-> NoResult],
                        series, clock)
  IN  BacktestAggregate(b.trades, b.totalReturn)

\* runBacktest is run twice on the same series with the same configuration, at
\* two moments.
RunBacktestTwice ==
  /\ out = {}
  /\ \E config \in BacktestConfigs, series \in ComparedSeries, clock1 \in Clocks,
        clock2 \in Clocks :
       out' = {[fn |-> "runBacktestTwice", config |-> config, series |-> series,
                clocks |-> <<clock1, clock2>>,
                first |-> runBacktestAt(config, series, clock1),
                second |-> runBacktestAt(config, series, clock2)]}
  /\ UNCHANGED <<activeBots, bots, nextBot, intervalHandles, timers, tasks, configs,
                 trades, now, faults, stopAcked, scope>>

\* Configurations of the position both risk managers watch: target 2 points,
\* stop 2 points, trailing stop (distance 1) enabled or not.
RiskConfigs ==
  [contratoPreferido : {"WIN"}, contratos : {1}, metaLucroDiario : {120},
   stopLossPontos : {2}, maxTradesDia : {3}, trailingStopAtivo : BOOLEAN,
   trailingStopPontos : {1}]

\* The price at which that position was entered, and the sequences of prices that
\* follow it (one per tick, one per bar).
RiskEntryPrice == 11

RiskPrices == [1..3 -> 9..13]

\* No exit: the position is open after the last price.
StillOpen == [step |-> 0, reason |-> "", exitPrice |-> 0]

\* The live controller on successive, non-overlapping ticks from price k on:
\* monitorPosition closes at the level hit, else updateTrailingStop stores the new
\* stop-loss that the next tick reads.
RECURSIVE LiveExit(_, _, _, _)
LiveExit(position, config, prices, k) ==
  IF k > Len(prices) THEN StillOpen
  ELSE LET exit == ExitDecision(position.direction, position.takeProfit,
                                position.stopLoss, prices[k])
           trail == TrailingStop(position.direction, position.stopLoss, prices[k],
                                 config.trailingStopPontos)
       IN  IF exit.shouldClose
           THEN [step |-> k, reason |-> exit.exitReason, exitPrice |-> exit.exitPrice]
           ELSE LiveExit(IF config.trailingStopAtivo /\ trail.updated
                         THEN [position EXCEPT !.stopLoss = trail.newStopLoss]
                         ELSE position,
                         config, prices, k + 1)

\* The exit branch of the backtest on successive bars from price k on.
RECURSIVE BacktestExitOver(_, _, _)
BacktestExitOver(position, prices, k) ==
  IF k > Len(prices) THEN StillOpen
  ELSE LET exit == BacktestExit(position, prices[k])
       IN  IF exit.shouldExit
           THEN [step |-> k, reason |-> exit.exitReason, exitPrice |-> exit.exitPrice]
           ELSE BacktestExitOver(position, prices, k + 1)

\* The same position, configuration and prices are given to the live controller
\* and to the backtest.
CompareRiskManagers ==
  /\ out = {}
  /\ \E config \in RiskConfigs, direction \in {"COMPRA", "VENDA"}, prices \in RiskPrices :
       LET levels == EntryLevels(config, RiskEntryPrice, direction)
           position == [entryPrice |-> RiskEntryPrice, entryTime |-> 0,
                        direction |-> direction, takeProfit |-> levels.takeProfit,
                        stopLoss |-> levels.stopLoss]
       IN  out' = {[fn |-> "riskManagers", config |-> config, position |-> position,
                    prices |-> prices,
                    live |-> LiveExit(position, config, prices, 1),
                    backtest |-> BacktestExitOver(position, prices, 1)]}
  /\ UNCHANGED <<activeBots, bots, nextBot, intervalHandles, timers, tasks, configs,
                 trades, now, faults, stopAcked, scope>>

\* ------------------------------------------------------------ calculateRSI
\* The sums of the rises and of the falls of prices over the deltas first..last
\* (delta d is prices[d + 1] - prices[d]; a zero change adds 0 to the falls).
RECURSIVE Gains(_, _, _)
Gains(prices, first, last) ==
  IF first > last THEN 0
  ELSE (IF prices[first + 1] - prices[first] > 0 THEN prices[first + 1] - prices[first]
        ELSE 0) + Gains(prices, first + 1, last)

RECURSIVE Losses(_, _, _)
Losses(prices, first, last) ==
  IF first > last THEN 0
  ELSE (IF prices[first + 1] - prices[first] > 0 THEN 0
        ELSE prices[first] - prices[first + 1]) + Losses(prices, first + 1, last)

\* 100 - 100 / (1 + avgGain / avgLoss) as floating point gives it: 100 gains /
\* (gains + losses), which is 100 when only the losses are zero (the division gives
\* Infinity) and 0 / 0, not a number, when gains and losses are both zero.
RsiOf(gains, losses) == Quotient(100 * gains, gains + losses)

\* TradingEngine.calculateRSI: 50 for a short series, else the deltas i = 1..period
\* counted from the start of the array.
calculateRSI(prices, period) ==
  IF Len(prices) < period + 1 THEN Quotient(50, 1)
  ELSE RsiOf(Gains(prices, 1, period), Losses(prices, 1, period))

\* MarketDataService.calculateRSI: 50 for a short series, else the last period
\* deltas, and 100 when the average loss is zero.
serviceCalculateRSI(prices, period) ==
  IF Len(prices) < period + 1 THEN Quotient(50, 1)
  ELSE LET gains == Gains(prices, Len(prices) - period, Len(prices) - 1)
           losses == Losses(prices, Len(prices) - period, Len(prices) - 1)
       IN  IF losses = 0 THEN Quotient(100, 1) ELSE RsiOf(gains, losses)

\* The longest series and the periods calculateRSI is called with.
MaxSeries == 5

RsiPeriods == {2, 3}

\* Price series of up to MaxSeries prices.
RsiSeries == UNION {[1..n -> 1..3] : n \in 0..MaxSeries}

\* The last n elements of a sequence.
LastOf(s, n) == SubSeq(s, Len(s) - n + 1, Len(s))

\* Both calculateRSI functions are called on a series, and the engine's also on
\* the last period + 1 prices of it.
ApplyRSI ==
  /\ out = {}
  /\ \E prices \in RsiSeries, period \in RsiPeriods :
       out' = {[fn |-> "calculateRSI", prices |-> prices, period |-> period,
                engine |-> calculateRSI(prices, period),
                service |-> serviceCalculateRSI(prices, period),
                engineOnTail |-> IF Len(prices) < period + 1 THEN calculateRSI(prices, period)
                                 ELSE calculateRSI(LastOf(prices, period + 1), period)]}
  /\ UNCHANGED <<activeBots, bots, nextBot, intervalHandles, timers, tasks, configs,
                 trades, now, faults, stopAcked, scope>>

\* ------------------------------------------------------------ trailing stop
\* Configurations with the trailing stop enabled (target 2 points): the stop-loss
\* distances insertBotConfigurationSchema accepts, trailing distances >= 0.
TrailConfigs ==
  [contratoPreferido : {"WIN"}, contratos : {1}, metaLucroDiario : {120},
   stopLossPontos : {-3, -1, 0, 2}, maxTradesDia : {3}, trailingStopAtivo : {TRUE},
   trailingStopPontos : {0, 1}]

\* The stop-losses a position holds while it is open, on successive,
\* non-overlapping ticks from price k on: the one it has, then the ones
\* updateTrailingStop stores until monitorPosition closes it.
RECURSIVE LiveStops(_, _, _, _)
LiveStops(position, config, prices, k) ==
  IF k > Len(prices) THEN {position.stopLoss}
  ELSE LET exit == ExitDecision(position.direction, position.takeProfit,
                                position.stopLoss, prices[k])
           trail == TrailingStop(position.direction, position.stopLoss, prices[k],
                                 config.trailingStopPontos)
       IN  IF exit.shouldClose THEN {position.stopLoss}
           ELSE {position.stopLoss} \cup
                LiveStops(IF config.trailingStopAtivo /\ trail.updated
                          THEN [position EXCEPT !.stopLoss = trail.newStopLoss]
                          ELSE position,
                          config, prices, k + 1)

\* executeEntry opens a position and the live controller watches it over a
\* sequence of prices.
TrailPosition ==
  /\ out = {}
  /\ \E config \in TrailConfigs, direction \in {"COMPRA", "VENDA"}, prices \in RiskPrices :
       LET levels == EntryLevels(config, RiskEntryPrice, direction)
           position == [entryPrice |-> RiskEntryPrice, entryTime |-> 0,
                        direction |-> direction, takeProfit |-> levels.takeProfit,
                        stopLoss |-> levels.stopLoss]
       IN  out' = {[fn |-> "trailPosition", config |-> config, position |-> position,
                    prices |-> prices,
                    stops |-> LiveStops(position, config, prices, 1)]}
  /\ UNCHANGED <<activeBots, bots, nextBot, intervalHandles, timers, tasks, configs,
                 trades, now, faults, stopAcked, scope>>

InitPure ==
  /\ Fresh
  /\ scope = PureScope

NextPure ==
  \/ ApplyEntryLevels
  \/ ApplyTargetPoints
  \/ ApplyEntryScore
  \/ RunBacktest
  \/ BacktestBar
  \/ BacktestReturn
  \/ RunBacktestTwice
  \/ CompareRiskManagers
  \/ ApplyRSI
  \/ TrailPosition

SpecPure == InitPure /\ [][NextPure]_vars

\* C14: the levels of every position created at entry agree with its direction for
\* every accepted configuration: COMPRA has take-profit > entry > stop-loss, VENDA
\* has take-profit < entry < stop-loss, with take-profit = entry +/- targetPoints
\* and stop-loss = entry -/+ stopLossPontos.
C14_LevelsAgreeWithDirection ==
  \A o \in out :
    o.fn = "executeEntry"
      => IF o.direction = "COMPRA"
         THEN /\ o.result.takeProfit = o.entryPrice + calculateTargetPoints(o.config)
              /\ o.result.stopLoss = o.entryPrice - o.config.stopLossPontos
              /\ o.result.takeProfit > o.entryPrice
              /\ o.entryPrice > o.result.stopLoss
         ELSE /\ o.result.takeProfit = o.entryPrice - calculateTargetPoints(o.config)
              /\ o.result.stopLoss = o.entryPrice + o.config.stopLossPontos
              /\ o.result.takeProfit < o.entryPrice
              /\ o.entryPrice < o.result.stopLoss

\* C15: calculateTargetPoints returns max(1, round((metaLucroDiario / maxTradesDia)
\* / (valorPonto * contratos))): an integer >= 1 that is the quotient rounded to the
\* nearest integer (halves up) whenever that is above 1; for a target of 500.00,
\* 3 trades, WIN and 1 contract it exceeds 800.
C15_TargetPointsAtLeastOne ==
  \A o \in out :
    o.fn = "calculateTargetPoints"
      => LET n == o.config.metaLucroDiario
             d == o.config.maxTradesDia * o.config.contratos
                    * (IF o.config.contratoPreferido = "WDO" THEN 50 ELSE 20)
             k == o.result
         IN  /\ k \in Nat
             /\ k >= 1
             /\ 2 * n < 2 * k * d + d
             /\ k > 1 => 2 * k * d - d <= 2 * n
             /\ (n = 50000 /\ d = 60) => k > 800

\* C15's cases: the floor of 1 applies to a quotient that rounds to 0, and the
\* example configuration gets more than 800 points.
C15_Witness ==
  \E o \in out :
    /\ o.fn = "calculateTargetPoints"
    /\ \/ (o.config.metaLucroDiario = 0 /\ o.result = 1)
       \/ (o.config.metaLucroDiario = 50000 /\ o.config.maxTradesDia = 3
             /\ o.config.contratos = 1 /\ o.config.contratoPreferido = "WIN"
             /\ o.result = 833)

\* The offset in minutes from midnight of a wall-clock time.
MinuteOfDay(clock) == 60 * clock[1] + clock[2]

\* C16: calculateEntryScore returns the additive score (RSI in [30,70]: +20, else
\* RSI < 35: +15, else RSI > 65: +10; EMA9 > EMA21: +20 else +15; MACD > signal:
\* +15; volatility in [20,200]: +20; 09:30 to 17:25: +25), the score lies in
\* [0,100], and shouldEnter is true exactly when the score is at least 60.
C16_ScoreIsAdditive ==
  \A o \in out :
    o.fn = "calculateEntryScore"
      => LET i == o.indicators
             rsi == IF i.rsi \in 30..70 THEN 20
                    ELSE IF i.rsi < 35 THEN 15 ELSE IF i.rsi > 65 THEN 10 ELSE 0
             ema == IF i.ema9 > i.ema21 THEN 20 ELSE 15
             macd == IF i.macd > i.macdSignal THEN 15 ELSE 0
             vol == IF i.volatilidade \in 20..200 THEN 20 ELSE 0
             time == IF MinuteOfDay(o.clock) \in 570..1045 THEN 25 ELSE 0
         IN  /\ o.result.score = rsi + ema + macd + vol + time
             /\ o.result.score \in 0..100
             /\ o.result.shouldEnter <=> o.result.score >= 60

\* C16's cases: the largest score, a score of exactly 60 that enters, and a
\* score below 60 that does not.
C16_Witness ==
  \E o \in out :
    /\ o.fn = "calculateEntryScore"
    /\ \/ o.result.score = 100 /\ o.result.shouldEnter
       \/ o.result.score = 60 /\ o.result.shouldEnter
       \/ o.result.score = 55 /\ ~o.result.shouldEnter

\* C17: the direction calculateEntryScore returns is COMPRA exactly when
\* EMA9 > EMA21 and VENDA otherwise, whatever the RSI is.
C17_DirectionFollowsEma ==
  \A o \in out :
    o.fn = "calculateEntryScore"
      => /\ o.result.direction \in {"COMPRA", "VENDA"}
         /\ o.result.direction = "COMPRA" <=> o.indicators.ema9 > o.indicators.ema21

\* C17's case: an RSI outside the neutral band whose bias is against the trend,
\* and the direction of the trend returned.
C17_Witness ==
  \E o \in out :
    /\ o.fn = "calculateEntryScore"
    /\ \/ (o.indicators.rsi > 70 /\ o.indicators.ema9 > o.indicators.ema21
             /\ o.result.direction = "COMPRA")
       \/ (o.indicators.rsi < 30 /\ o.indicators.ema9 < o.indicators.ema21
             /\ o.result.direction = "VENDA")

\* C18 as stated: with RSI = 85, volatility = 500 and EMA9 < EMA21 the score is
\* below 60 and shouldEnter is false, whatever the MACD values and the time.
C18_OverboughtNeverEnters ==
  \A o \in out :
    (/\ o.fn = "calculateEntryScore"
     /\ o.indicators.rsi = 85 /\ o.indicators.volatilidade = 500
     /\ o.indicators.ema9 < o.indicators.ema21)
      => o.result.score < 60 /\ ~o.result.shouldEnter

\* C18 amended: with RSI = 85, volatility = 500 and EMA9 < EMA21 the score is
\* 25, plus 15 when MACD > signal, plus 25 inside the trading window; it is
\* below 60 with shouldEnter false unless MACD > signal inside the window, where
\* the score is 65 and shouldEnter is true.
C18_OverboughtEntersOnlyWithMacdInWindow ==
  \A o \in out :
    (/\ o.fn = "calculateEntryScore"
     /\ o.indicators.rsi = 85 /\ o.indicators.volatilidade = 500
     /\ o.indicators.ema9 < o.indicators.ema21)
      => IF o.indicators.macd > o.indicators.macdSignal
            /\ MinuteOfDay(o.clock) \in 570..1045
         THEN o.result.score = 65 /\ o.result.shouldEnter
         ELSE o.result.score \in {25, 40, 50} /\ ~o.result.shouldEnter

\* C18's cases: the overbought, volatile downtrend is scored 65 and entered with
\* MACD above its signal inside the window, and scored 50 and refused with MACD
\* below its signal.
C18_Witness ==
  \E o \in out :
    /\ o.fn = "calculateEntryScore"
    /\ o.indicators.rsi = 85 /\ o.indicators.volatilidade = 500
    /\ o.indicators.ema9 < o.indicators.ema21
    /\ \/ o.result.score = 65 /\ o.result.shouldEnter
       \/ o.result.score = 50 /\ ~o.result.shouldEnter /\ o.indicators.macd < o.indicators.macdSignal

\* C19: a stopBot call for a user without a registry entry fails with the
\* not-active error and changes nothing: the registry, the BotStatus objects, the
\* timers and their handles, the persisted configurations, the invocations in
\* flight and the trades are unchanged, and the step produces no event and no log.
C19_StopRejectedNoEffect ==
  [][\A u \in Users :
       (Call(u, "stopBot") \in out' /\ activeBots[u] = 0)
         => /\ out' = {Call(u, "stopBot"), Ret(u, "stopBot", "NotActive")}
            /\ UNCHANGED <<activeBots, bots, nextBot, intervalHandles, timers, tasks,
                           configs, trades>>]_vars

\* C19's case: stopBot has just been rejected for a user whose bot ran and was
\* stopped before.
C19_Witness ==
  \E u \in Users :
    /\ Ret(u, "stopBot", "NotActive") \in out
    /\ activeBots[u] = 0
    /\ \E b \in BotIds : bots[b].userId = u

\* C20: an emergencyStop call for a user without a registry entry returns
\* normally and leaves the registry, the BotStatus objects, the timers and their
\* handles, the persisted configurations, the invocations in flight and the
\* trades unchanged.
C20_EmergencyStopNoBotIsNoOp ==
  [][\A u \in Users :
       (Call(u, "emergencyStop") \in out' /\ activeBots[u] = 0)
         => /\ Ret(u, "emergencyStop", "ok") \in out'
            /\ UNCHANGED <<activeBots, bots, nextBot, intervalHandles, timers, tasks,
                           configs, trades>>]_vars

\* C20's case: emergencyStop has just returned for a user without a registry
\* entry, after the user's bot ran and was stopped.
C20_Witness ==
  \E u \in Users :
    /\ Ret(u, "emergencyStop", "ok") \in out
    /\ activeBots[u] = 0
    /\ \E b \in BotIds : bots[b].userId = u /\ configs[bots[b].configId] = "inactive"

\* C21: every emergencyStop call writes a WARNING audit log entry: whenever the
\* call returns, the WARNING log of that user is written with it (logBotActivity
\* is the last statement awaited before the return).
C21_EmergencyStopAlwaysLogs ==
  \A u \in Users :
    Ret(u, "emergencyStop", "ok") \in out
      => \E c \in ConfigIds : Log(u, c, "WARNING") \in out

\* The orders among the outputs of a step.
Orders(o) == {e \in o : e[1] = "order"}

\* C22: a tick whose market snapshot is unavailable is skipped with no state
\* change: the step that finds no snapshot leaves the registry, the BotStatus
\* objects (position reference, trades-today, profit-today, last activity), the
\* trades and the timers unchanged, places no order and goes on to the WARNING
\* log; the step that writes that log ends the tick, again with nothing changed
\* and no order.  A tick that gets a snapshot goes on to storage.getTrades.
C22_NoSnapshotSkipsTick ==
  [][\A r \in BagToSet(tasks) :
       /\ (r.pc = "getMarket" /\ Steps(r))
            => \/ \E md \in Prices : Reaches(r, [pc |-> "getTrades", price |-> md])
               \/ /\ Reaches(r, [pc |-> "logReturn", level |-> "WARNING"])
                  /\ UNCHANGED <<activeBots, bots, trades, timers, intervalHandles, configs>>
                  /\ out' = {}
       /\ (r.pc = "logReturn" /\ r.level = "WARNING" /\ Steps(r) /\ faults' = faults)
            => /\ out' = {Log(r.user, r.cfg, "WARNING")}
               /\ UNCHANGED <<activeBots, bots, trades, timers, intervalHandles, configs>>
               /\ BagCardinality(tasks') < BagCardinality(tasks)]_vars

\* C22's case: a tick found no market snapshot while the user has an open
\* position, and awaits its WARNING log.
C22_Witness ==
  \E r \in BagToSet(tasks) :
    /\ r.op = "monitorBot" /\ r.pc = "logReturn" /\ r.level = "WARNING"
    /\ OpenTrades(r.user) # {}
    /\ bots[r.bs].currentPosition.id # 0

\* C23: in a tick with no open position whose indicator set is unavailable, the
\* tick goes on to write a WARNING audit log, places no order and leaves the
\* registry and the BotStatus objects as they were.
C23_NoIndicatorsWarns ==
  [][\A r \in BagToSet(tasks) :
       (r.pc = "getIndicators" /\ Steps(r) /\ NoData(r.user, "indicators") \in out')
         => /\ Reaches(r, [pc |-> "logReturn", level |-> "WARNING"])
            /\ Orders(out') = {}
            /\ UNCHANGED <<activeBots, bots>>]_vars

\* The events and audit log entries of user u among the outputs of a step.
Notices(u, o) == {e \in o : e[1] \in {"event", "log"} /\ e[2] = u}

\* C24: every completed lifecycle transition emits botStatusChange for its user
\* and writes an audit log entry, and a rejected start or stop emits none: an
\* invocation of startBot, stopBot or emergencyStop comes to await its log only by
\* the step that emits the event (active for a start, inactive for a stop); the
\* step that ends that await writes the log entry (INFO, or WARNING for
\* emergencyStop), for a stop called by the API and for one called by a tick; a
\* call of a running bot's transition returns normally only by that step; and a
\* call that fails with AlreadyActive or NotActive outputs no event and no log.
C24_TransitionsNotify ==
  [][/\ \A r \in BagToSet(tasks') :
          (r.pc \in {"start_log", "stop_log"} /\ CopiesIn(r, tasks') > CopiesIn(r, tasks))
            => Event(r.user, "botStatusChange",
                     IF r.pc = "start_log" THEN "active" ELSE "inactive") \in out'
     /\ \A r \in BagToSet(tasks) :
          (r.pc \in {"start_log", "stop_log"} /\ Steps(r) /\ faults' = faults)
            => Log(r.user, IF r.pc = "start_log" THEN r.cfg ELSE bots[r.sbs].configId,
                   IF r.op = "emergencyStop" THEN "WARNING" ELSE "INFO") \in out'
     /\ \A u \in Users, op \in {"startBot", "stopBot", "emergencyStop"} :
          (Ret(u, op, "ok") \in out' /\ Call(u, op) \notin out')
            => \E r \in BagToSet(tasks) :
                 /\ r.user = u /\ r.op = op /\ r.pc \in {"start_log", "stop_log"}
                 /\ Steps(r)
     /\ \A u \in Users :
          (\/ Ret(u, "startBot", "AlreadyActive") \in out'
           \/ Ret(u, "stopBot", "NotActive") \in out')
            => Notices(u, out') = {}]_vars

\* C24's case: a stopBot call of a running bot has just returned with its audit
\* log entry written and the registry entry gone.
C24_Witness ==
  \E u \in Users :
    /\ Ret(u, "stopBot", "ok") \in out
    /\ \E c \in ConfigIds : Log(u, c, "INFO") \in out /\ configs[c] = "inactive"
    /\ activeBots[u] = 0

\* What the engine holds for user u: the registry entry, the timer handle, the
\* live timers and the BotStatus objects of u's bots, and u's trade rows.
UserState(A, H, T, B, R, u) ==
  <<A[u], H[u], {t \in T : B[t].userId = u},
    {<<b, B[b]>> : b \in {x \in BotIds : B[x].userId = u}},
    {<<i, R[i]>> : i \in {x \in 1..Len(R) : R[x].userId = u}}>>

\* The step is a call of startBot, stopBot or emergencyStop by user u, a firing
\* of u's timer, or the continuation of an invocation running for u.
Actor(u) ==
  \/ \E op \in {"startBot", "stopBot", "emergencyStop"} : Call(u, op) \in out'
  \/ TickStart(u) \in out'
  \/ \E r \in BagToSet(tasks) : r.user = u /\ Steps(r)

Backtests == {b \in out : b.fn = "runBacktest"}

\* C26: runBacktest on a series of fewer than 50 bars, an empty or a missing
\* series included, fails with the insufficient-data error and returns no partial
\* result (no loop iteration runs, no trade, no aggregate); on 50 bars or more it
\* does not fail: it runs the loop over the bars up to the end and returns.
C26_ShortSeriesRejected ==
  \A b \in Backtests :
    IF b.len = NoSeries \/ b.len < 50
    THEN /\ b.pc = "thrown"
         /\ b.result = NoResult /\ b.trades = <<>> /\ b.i = 21
    ELSE /\ b.pc \in {"loop", "returned"}
         /\ b.i <= b.len
         /\ b.pc = "returned" => b.i = b.len

\* C26's case: a series of 49 bars has been rejected.
C26_Witness == \E b \in Backtests : b.len = 49 /\ b.pc = "thrown"

\* The sum of the returns of the first k trades.
RECURSIVE Cum(_, _)
Cum(trs, k) == IF k = 0 THEN 0 ELSE Cum(trs, k - 1) + trs[k].return

\* C27: the result of a backtest on 50 bars or more satisfies winningTrades +
\* losingTrades = totalTrades = number of returned trades, winRate = 100 *
\* winningTrades / totalTrades (0 without trades) in [0,100], totalReturn = the sum
\* of the trades' returns, averageReturn = totalReturn / totalTrades (0 without
\* trades).
C27_AggregatesConsistent ==
  \A b \in Backtests :
    b.pc = "returned"
      => LET r == b.result
             n == Len(r.trades)
         IN  /\ r.trades = b.trades
             /\ r.totalTrades = n
             /\ r.winningTrades + r.losingTrades = n
             /\ r.winningTrades = Cardinality({k \in 1..n : r.trades[k].return > 0})
             /\ r.winRate.den > 0 /\ r.averageReturn.den > 0
             /\ IF n = 0 THEN r.winRate.num = 0
                ELSE r.winRate.num * n = 100 * r.winningTrades * r.winRate.den
             /\ 0 <= r.winRate.num /\ r.winRate.num <= 100 * r.winRate.den
             /\ r.totalReturn = Cum(r.trades, n)
             /\ IF n = 0 THEN r.averageReturn.num = 0
                ELSE r.averageReturn.num * n = r.totalReturn * r.averageReturn.den

\* C27's case: a returned backtest with a winning and a losing trade.
C27_Witness ==
  \E b \in Backtests :
    /\ b.pc = "returned"
    /\ b.result.winningTrades > 0 /\ b.result.losingTrades > 0

\* C28: the backtest holds at most one position and evaluates from index 21: every
\* trade is entered at bar 21 or later and exited at a later bar than it was
\* entered, the next trade is entered after the previous one was exited, and the
\* open position, if any, was entered at bar 21 or later, after the last exit and
\* before the bar now evaluated.
C28_TradesNeverOverlap ==
  \A b \in Backtests :
    /\ \A k \in 1..Len(b.trades) :
         /\ b.trades[k].entryTime >= 21
         /\ b.trades[k].exitTime > b.trades[k].entryTime
         /\ k > 1 => b.trades[k].entryTime > b.trades[k - 1].exitTime
    /\ b.currentPosition # NoPosition
         => /\ b.currentPosition.entryTime >= 21
            /\ b.currentPosition.entryTime < b.i
            /\ Len(b.trades) > 0
                 => b.currentPosition.entryTime > b.trades[Len(b.trades)].exitTime

\* C28's case: a returned backtest whose first trade was entered at bar 21 and
\* which has a later trade.
C28_Witness ==
  \E b \in Backtests :
    /\ b.pc = "returned"
    /\ Len(b.trades) >= 2
    /\ b.trades[1].entryTime = 21

\* C29: every backtest trade has reason TAKE_PROFIT or STOP_LOSS and is settled at
\* that level of its position (entry +/- target points, entry -/+ stopLossPontos),
\* and a position still open after the last bar is returned in no trade and counted
\* in no aggregate.
C29_ExitsAtConfiguredLevels ==
  \A b \in Backtests :
    /\ \A k \in 1..Len(b.trades) :
         LET t == b.trades[k]
             up == IF t.direction = "COMPRA" THEN 1 ELSE -1
         IN  /\ t.reason \in {"TAKE_PROFIT", "STOP_LOSS"}
             /\ t.reason = "TAKE_PROFIT"
                  => t.exitPrice = t.entryPrice + up * calculateTargetPoints(b.config)
             /\ t.reason = "STOP_LOSS"
                  => t.exitPrice = t.entryPrice - up * b.config.stopLossPontos
    /\ (b.pc = "returned" /\ b.currentPosition # NoPosition)
         => /\ \A k \in 1..Len(b.result.trades) :
                 b.result.trades[k].entryTime # b.currentPosition.entryTime
            /\ b.result.totalTrades = Len(b.trades)
            /\ b.result.totalReturn = Cum(b.trades, Len(b.trades))

\* C29's case: a returned backtest with a closed trade and a position left open.
C29_Witness ==
  \E b \in Backtests :
    /\ b.pc = "returned"
    /\ b.currentPosition # NoPosition
    /\ Len(b.result.trades) > 0

\* C30: maxDrawdown is the largest decline of the cumulative return from an earlier
\* peak, the peak starting at 0: the largest cum_i - cum_j over 0 <= i <= j, so
\* it is >= 0, and 0 when the cumulative return never falls below an earlier peak.
C30_MaxDrawdownIsPeakToTrough ==
  \A b \in Backtests :
    b.pc = "returned"
      => LET r == b.result
             n == Len(r.trades)
             upTo == {<<i, j>> \in (0..n) \X (0..n) : i <= j}
         IN  /\ r.maxDrawdown >= 0
             /\ \A p \in upTo : Cum(r.trades, p[1]) - Cum(r.trades, p[2]) <= r.maxDrawdown
             /\ \E p \in upTo : Cum(r.trades, p[1]) - Cum(r.trades, p[2]) = r.maxDrawdown

\* C30's case: a returned backtest that won first and then lost, whose drawdown is
\* measured from the peak after the win.
C30_Witness ==
  \E b \in Backtests :
    /\ b.pc = "returned"
    /\ Len(b.result.trades) >= 2
    /\ b.result.trades[1].return > 0
    /\ b.result.maxDrawdown > 0
    /\ b.result.totalReturn >= 0

\* C31: runBacktest is deterministic: two runs on the same series with the same
\* configuration return the same trades and statistics, whatever the moments at
\* which they run.
C31_BacktestDeterministic ==
  \A o \in out : o.fn = "runBacktestTwice" => o.first = o.second

\* C32: the backtest applies the risk manager as the live controller does: for
\* the same position, configuration (trailing stop enabled or not) and prices,
\* both close the position at the same step, for the same reason, at the same
\* exit price, or both leave it open.
C32_BacktestExitsLikeLive ==
  \A o \in out : o.fn = "riskManagers" => o.live = o.backtest

\* Two results are the same number (not-a-number equals nothing).
SameNumber(a, b) == a.den # 0 /\ b.den # 0 /\ a.num * b.den = b.num * a.den

\* C33: for a series of at least period + 1 prices the engine's RSI is a number in
\* [0,100], and it is 100 whenever the losses over its window are zero, a
\* constant series included; for a shorter series it is 50.
C33_RsiDefinedAndBounded ==
  \A o \in out :
    o.fn = "calculateRSI"
      => IF Len(o.prices) >= o.period + 1
         THEN /\ o.engine.den > 0
              /\ 0 <= o.engine.num /\ o.engine.num <= 100 * o.engine.den
              /\ Losses(o.prices, 1, o.period) = 0 => SameNumber(o.engine, Quotient(100, 1))
         ELSE SameNumber(o.engine, Quotient(50, 1))

\* C34: the RSI is computed over the last period deltas: for a series of at least
\* period + 1 prices the engine's result is its result on the last period + 1
\* prices alone, and on every series the engine's calculateRSI returns the value
\* the market-data service's returns.
C34_RsiOverLastDeltas ==
  \A o \in out :
    o.fn = "calculateRSI"
      => /\ SameNumber(o.engine, o.engineOnTail)
         /\ SameNumber(o.engine, o.service)

\* The positions the engine opened for user u under configuration c.
Opened(u, c) == {i \in TradeIds : trades[i].userId = u /\ trades[i].botConfigId = c}

\* C35: when the ticks do not overlap (one invocation in flight at a time), a tick
\* is at its entry order, or past it at the creation of the trade, only with the
\* trades-today it read below the maxTradesDia of its configuration, and the
\* positions the engine has opened for a user under a configuration never exceed
\* that configuration's maxTradesDia.
C35_EntriesWithinDailyLimit ==
  scope.tasks = 1
    => /\ \A r \in BagToSet(tasks) :
            r.pc \in {"entryBroker", "createTrade"}
              => bots[r.bs].dailyTrades < Config[r.cfg].maxTradesDia
       /\ \A u \in Users, c \in ConfigIds :
            Cardinality(Opened(u, c)) <= Config[c].maxTradesDia

\* C35's case: with the ticks not overlapping, the engine has opened as many
\* positions as the configuration allows and a later tick, having read that
\* count, is about to log the limit and return.
C35_Witness ==
  /\ scope.tasks = 1
  /\ \E r \in BagToSet(tasks) :
       /\ r.op = "monitorBot" /\ r.pc = "logReturn" /\ r.level = "INFO"
       /\ Cardinality(Opened(r.user, r.cfg)) = Config[r.cfg].maxTradesDia
       /\ bots[r.bs].dailyTrades >= Config[r.cfg].maxTradesDia

\* C36: once a stopBot or emergencyStop call of a user has returned, and until a
\* later startBot of that user succeeds, no step opens a position of the engine
\* for that user.
C36_NoEntryAfterStop ==
  [][\A u \in Users :
       stopAcked[u] => \A c \in ConfigIds : Opened(u, c)' = Opened(u, c)]_vars

\* The live timers setInterval created for user u.
TimersOf(u) == {h \in timers : bots[h].userId = u}

\* A startBot, stopBot or emergencyStop call of user u is in progress (the stopBot
\* a tick calls included).
CallInProgress(u) ==
  \E r \in BagToSet(tasks) :
    r.user = u /\ (r.op \in {"startBot", "stopBot", "emergencyStop"} \/ r.nested)

\* C37: whenever no startBot, stopBot or emergencyStop call of a user is in
\* progress, the user has a registry entry exactly when the user has one live
\* timer, and never has more than one timer.
C37_RegistryMatchesTimer ==
  \A u \in Users :
    ~CallInProgress(u)
      => /\ Cardinality(TimersOf(u)) <= 1
         /\ activeBots[u] # 0 <=> Cardinality(TimersOf(u)) = 1

\* C38: every position is closed at most once: storage.closeTrade has written
\* the exit of a trade row (after the closing order to the broker) at most once.
C38_ClosedAtMostOnce == \A i \in TradeIds : trades[i].closes <= 1

\* C39: while a position is open, through the trailing-stop updates of successive
\* ticks (trailing distance >= 0), its stop-loss stays on the near side of its
\* take-profit: below it for a Long, above it for a Short.
C39_StopNeverCrossesTarget ==
  \A o \in out :
    o.fn = "trailPosition"
      => \A stopLoss \in o.stops :
           IF o.position.direction = "COMPRA" THEN stopLoss < o.position.takeProfit
           ELSE stopLoss > o.position.takeProfit

\* The trades of a backtest closed for the given reason.
ClosedFor(trs, reason) == {k \in 1..Len(trs) : trs[k].reason = reason}

\* C40: in a backtest with contratos >= 1 and stopLossPontos >= 0 every
\* TAKE_PROFIT trade returns +targetPoints * valorPonto * contratos and is counted
\* as winning, every STOP_LOSS trade returns -stopLossPontos * valorPonto *
\* contratos and is counted as losing, and totalReturn is (winningTrades *
\* targetPoints - losingTrades * stopLossPontos) * valorPonto * contratos.
C40_ReturnsFollowLevels ==
  \A b \in Backtests :
    (b.config.contratos >= 1 /\ b.config.stopLossPontos >= 0)
      => LET unit == getContractSpec(b.config.contratoPreferido).valorPonto
                       * b.config.contratos
             targetPoints == calculateTargetPoints(b.config)
             r == b.result
         IN  /\ \A k \in ClosedFor(b.trades, "TAKE_PROFIT") :
                  b.trades[k].return = targetPoints * unit /\ b.trades[k].return > 0
             /\ \A k \in ClosedFor(b.trades, "STOP_LOSS") :
                  b.trades[k].return = 0 - b.config.stopLossPontos * unit
                    /\ b.trades[k].return <= 0
             /\ b.pc = "returned"
                  => /\ r.winningTrades = Cardinality(ClosedFor(r.trades, "TAKE_PROFIT"))
                     /\ r.losingTrades = Cardinality(ClosedFor(r.trades, "STOP_LOSS"))
                     /\ r.totalReturn =
                          (r.winningTrades * targetPoints
                             - r.losingTrades * b.config.stopLossPontos) * unit

\* C40's case: a returned backtest of two contracts with stop 0 that took a profit
\* and was stopped out with a return of zero.
C40_Witness ==
  \E b \in Backtests :
    /\ b.pc = "returned"
    /\ b.config.contratos = 2 /\ b.config.stopLossPontos = 0
    /\ ClosedFor(b.result.trades, "TAKE_PROFIT") # {}
    /\ \E k \in ClosedFor(b.result.trades, "STOP_LOSS") : b.result.trades[k].return = 0

====
